---- MODULE Spec2Model ----
(***************************************************************************)
(* Model of the flow-orchestrator telemetry client: the metric aggregator  *)
(* (src/src/aggregator/aggregator.rs), the ring helper vec_shift           *)
(* (src/src/common/mod.rs), the value model (src/src/common/metric.rs) and *)
(* the concurrent access wrapper Backend (src/src/backend.rs).             *)
(*                                                                         *)
(* Option<T> is modelled as a sequence: <<>> is None, <<x>> is Some(x).    *)
(* An f64 is modelled as an exact rational <<numerator, denominator>>.     *)
(* A VecDeque is a sequence whose element 1 is the deque's index 0.        *)
(***************************************************************************)
EXTENDS Integers, Sequences, FiniteSets, TLC

VARIABLES
    aggregator,        \* the MetricAggregator shared behind Arc<Mutex<..>>
    overflow_checks,   \* build property: are integer overflow checks compiled in
    agg_panicked,      \* a handle_metrics call has panicked (u64 underflow)
    calls,             \* trace: the handle_incoming_metric calls of the last batch
    pushed,            \* trace: per label, every (timestamp, value) upserted, newest first
    first_seen,        \* trace: per label, the metric and parent of its first upsert
    batches,           \* number of batches handed to handle_metrics so far
    query,             \* trace: the last get_metric_history call, its buffer and its result
    handled_at,        \* trace: the new_timestamp argument of the last handle_metrics call
    unit_parse,        \* trace: the last MetricUnit::try_from call, its input and its result
    value_parse        \* trace: the last MetricValue::try_from call, its input and its result

parseVars == <<unit_parse, value_parse>>

aggVars ==
    <<aggregator, overflow_checks, agg_panicked, calls, pushed, first_seen, batches, query,
      handled_at, parseVars>>

VARIABLES
    task_join_handle,  \* Backend.task_join_handle: Option<JoinHandle<()>>
    quit_signal,       \* Backend.quit_signal: Option<oneshot::Sender<()>>
    callbacks,         \* Backend.callbacks: the registered callbacks, by what they do
    agg_mutex,         \* the Mutex around the aggregator: [holder, poisoned]
    cb_mutex,          \* the Mutex around the callback list: [holder, poisoned]
    quit_chan,         \* the oneshot channel: "none", "open", "sent" or "closed"
    task_pc,           \* where the ingestion task (receiver_handler) is
    task_msg,          \* the MetricCollection the task is handling
    task_i,            \* the task's loop index (metric, rule or callback)
    task_len,          \* the rule count the rule pass began with
    do_reconnect,      \* the loop's local flag
    reader_pc,         \* where each reader thread is in a Backend read method
    ctl_pc,            \* where the owner of the Backend is in connect/disconnect
    ctl_log,           \* trace: the last two connect/disconnect calls, in order
    connected,         \* trace: a connect succeeded since the last completed disconnect
    committed,         \* trace: the aggregator as the last completed handle_metrics left it
    invoked,           \* trace: the callbacks invoked for the batch in hand, in order
    events,            \* number of receive results and timeouts delivered so far
    received           \* trace: how the batch in hand was received: [idle, agg]

backendVars ==
    <<task_join_handle, quit_signal, callbacks, agg_mutex, cb_mutex, quit_chan, task_pc, task_msg,
      task_i, task_len, do_reconnect, reader_pc, ctl_pc, ctl_log, connected, committed, invoked,
      events, received>>

traceVars == <<agg_panicked, calls, pushed, first_seen, batches, query, handled_at, parseVars>>

vars == <<aggVars, backendVars>>

-----------------------------------------------------------------------------
(* Bounds of the model *)

\* max_history of the aggregator; the source sets it to DEFAULT_MAX_HISTORY = 128
\* (aggregator.rs:77), the model scales it down.
MaxHistory == 3

\* depth of the MovingAverage rules; the source sets it to 32 (aggregator.rs:208),
\* a quarter of max_history; the model scales it down with MaxHistory, below it.
AvgDepth == 2

\* number of batches a behaviour ingests
MaxBatches == 3

\* number of batches of a long run
RingDepth == 5

\* receive results and timeouts the endpoint and the timer deliver to one Backend
MaxEvents == 2

\* largest max_len a get_metric_history call asks for
MaxLen == 4

\* callbacks registered with one Backend
MaxCallbacks == 2

-----------------------------------------------------------------------------
(* Option and rational helpers *)

NoneOpt == <<>>

Some(x) == <<x>>

IsSome(o) == Len(o) = 1

Abs(n) == IF n < 0 THEN -n ELSE n

RECURSIVE Gcd(_, _)
Gcd(a, b) == IF b = 0 THEN a ELSE Gcd(b, a % b)

\* a rational in lowest terms with a positive denominator
Rat(n, d) ==
    LET s == IF d < 0 THEN -1 ELSE 1
        g == Gcd(Abs(n), Abs(d))
    IN  <<(s * n) \div g, (s * d) \div g>>

RatSub(a, b) == Rat(a[1] * b[2] - b[1] * a[2], a[2] * b[2])

RatAdd(a, b) == Rat(a[1] * b[2] + b[1] * a[2], a[2] * b[2])

\* cross-reduced product, so that intermediate values stay small
RatMul(a, b) ==
    LET x == Rat(a[1], b[2])
        y == Rat(b[1], a[2])
    IN  Rat(x[1] * y[1], x[2] * y[2])

RatDiv(a, b) == RatMul(a, Rat(b[2], b[1]))

RatLess(a, b) == a[1] * b[2] < b[1] * a[2]

\* `x as i64`: truncation toward zero
AsI64(a) == IF a[1] >= 0 THEN a[1] \div a[2] ELSE -((-a[1]) \div a[2])

-----------------------------------------------------------------------------
(* Unit and value model: src/src/common/metric.rs *)

MetricRawUnit == {"None", "Packets", "Bits", "Bytes", "Seconds"}

OrderOfMagnitude == {"Nano", "Micro", "Milli", "One", "Kilo", "Mega", "Giga", "Tera"}

get_exponent(oom) ==
    CASE oom = "Nano"  -> -9
      [] oom = "Micro" -> -6
      [] oom = "Milli" -> -3
      [] oom = "One"   -> 0
      [] oom = "Kilo"  -> 3
      [] oom = "Mega"  -> 6
      [] oom = "Giga"  -> 9
      [] oom = "Tera"  -> 12

RECURSIVE Pow10(_)
Pow10(e) == IF e = 0 THEN 1 ELSE 10 * Pow10(e - 1)

\* 10.0.powi(exponent)
get_factor(oom) ==
    LET e == get_exponent(oom)
    IN  IF e >= 0 THEN <<Pow10(e), 1>> ELSE <<1, Pow10(-e)>>

MetricUnit_new(unit_num, unit_den, oom) ==
    [raw_unit_num |-> unit_num, raw_unit_den |-> unit_den, order_of_magnitude |-> oom]

Empty == [type |-> "Empty", num |-> 0, den |-> 1, text |-> ""]

Integer(n) == [type |-> "Integer", num |-> n, den |-> 1, text |-> ""]

Number(r) == [type |-> "Number", num |-> r[1], den |-> r[2], text |-> ""]

String(s) == [type |-> "String", num |-> 0, den |-> 1, text |-> s]

\* impl From<&MetricValue> for f64
F64From(metric_value) ==
    CASE metric_value.type = "Empty"   -> <<0, 1>>
      [] metric_value.type = "Integer" -> <<metric_value.num, 1>>
      [] metric_value.type = "Number"  -> <<metric_value.num, metric_value.den>>
      [] metric_value.type = "String"  -> <<0, 1>>

Metric_new(label, unit, value) == [label |-> label, unit |-> unit, value |-> value]

\* str::ends_with
ends_with(s, suffix) ==
    /\ Len(s) >= Len(suffix)
    /\ SubSeq(s, Len(s) - Len(suffix) + 1, Len(s)) = suffix

\* discriminant(value) is that of Number or of Integer
IsNumeric(value) == value.type = "Number" \/ value.type = "Integer"

-----------------------------------------------------------------------------
(* vec_shift: src/src/common/mod.rs *)

\* a ring that evicts one insertion too late
vec_shift_late(data, new_element, max_size) ==
    IF Len(data) <= max_size
    THEN <<new_element>> \o data
    ELSE <<new_element>> \o SubSeq(data, 1, Len(data) - 1)

vec_shift(data, new_element, max_size) ==
    IF Len(data) < max_size
    THEN <<new_element>> \o data                         \* insert(0, new_element)
    ELSE <<new_element>> \o SubSeq(data, 1, Len(data) - 1) \* rotate_right(1); data[0] = new

-----------------------------------------------------------------------------
(* MetricAggregator: src/src/aggregator/aggregator.rs *)

DEFAULT_DELTAT == 250000

\* HashMap::new()
EmptyMap == [l \in {} |-> {}]

MetricAggregator_new ==
    [metrics            |-> EmptyMap,
     last_timestamp     |-> 0,
     auto_metric_rules  |-> << >>,
     messages_received  |-> 0]

History(current, history) == [kind |-> "History", current |-> current, history |-> history]

CurrentOnly(current) == [kind |-> "CurrentOnly", current |-> current, history |-> << >>]

MetricEntry_new(storage, parent_metric) == [storage |-> storage, parent_metric |-> parent_metric]

AutoMetricRule(src, dst, rule_type) ==
    [src_metric_name |-> src, dst_metric_name |-> dst, rule_type |-> rule_type]

TimeDifferentiate == [tag |-> "TimeDifferentiate", depth |-> 0]

MovingAverage(depth) == [tag |-> "MovingAverage", depth |-> depth]

\* a rate taken as older minus newer
metric_from_time_diff_swapped(first, second, src_unit, dst_name, time_diff_s) ==
    LET value_diff == RatSub(F64From(second), F64From(first))
        order_of_magnitude ==
            CASE src_unit.raw_unit_num = "Bytes" -> "Kilo"
              [] src_unit.raw_unit_num = "Bits"  -> "Mega"
              [] OTHER                           -> "One"
        scaling == RatDiv(<<1, 1>>, get_factor(order_of_magnitude))
        rate_value == AsI64(RatDiv(RatMul(scaling, value_diff), time_diff_s))
    IN  Some(Metric_new(dst_name,
                        MetricUnit_new(src_unit.raw_unit_num, "Seconds", order_of_magnitude),
                        Integer(rate_value)))

\* a rate without the correction factor of the source's numerator
metric_from_time_diff_unscaled(first, second, src_unit, dst_name, time_diff_s) ==
    LET value_diff == RatSub(F64From(first), F64From(second))
        order_of_magnitude ==
            CASE src_unit.raw_unit_num = "Bytes" -> "Kilo"
              [] src_unit.raw_unit_num = "Bits"  -> "Mega"
              [] OTHER                           -> "One"
        rate_value == AsI64(RatDiv(value_diff, time_diff_s))
    IN  Some(Metric_new(dst_name,
                        MetricUnit_new(src_unit.raw_unit_num, "Seconds", order_of_magnitude),
                        Integer(rate_value)))

metric_from_time_diff(first, second, src_unit, dst_name, time_diff_s) ==
    LET value_diff == RatSub(F64From(first), F64From(second))
        order_of_magnitude ==
            CASE src_unit.raw_unit_num = "Bytes" -> "Kilo"
              [] src_unit.raw_unit_num = "Bits"  -> "Mega"
              [] OTHER                           -> "One"
        scaling == RatDiv(<<1, 1>>, get_factor(order_of_magnitude))
        rate_value == AsI64(RatDiv(RatMul(scaling, value_diff), time_diff_s))
    IN  Some(Metric_new(dst_name,
                        MetricUnit_new(src_unit.raw_unit_num, "Seconds", order_of_magnitude),
                        Integer(rate_value)))

metric_from_avg(value, src_unit, dst_name) ==
    Some(Metric_new(dst_name, src_unit, Number(value)))

\* a gate that does not look at the label's suffix
create_auto_rules_any_label(rules, metric_storage) ==
    LET current == metric_storage.current
    IN  IF metric_storage.kind = "History" /\ IsNumeric(current.value)
        THEN IF current.unit.raw_unit_den # "Seconds"
             THEN IF current.unit.raw_unit_num # "None" /\ current.unit.raw_unit_num # "Seconds"
                  THEN Append(rules, AutoMetricRule(current.label, current.label \o "-ps",
                                                    TimeDifferentiate))
                  ELSE rules
             ELSE Append(rules, AutoMetricRule(current.label, current.label \o "-avg",
                                               MovingAverage(AvgDepth)))
        ELSE rules

\* a gate that puts a new rule at the front of the list
create_auto_rules_front(rules, metric_storage) ==
    LET current == metric_storage.current
    IN  IF metric_storage.kind = "History" /\ IsNumeric(current.value)
        THEN IF current.unit.raw_unit_den # "Seconds"
             THEN IF current.unit.raw_unit_num # "None" /\ current.unit.raw_unit_num # "Seconds"
                  THEN <<AutoMetricRule(current.label, current.label \o "-ps",
                                        TimeDifferentiate)>> \o rules
                  ELSE rules
             ELSE IF ~ends_with(current.label, "-avg")
                  THEN <<AutoMetricRule(current.label, current.label \o "-avg",
                                        MovingAverage(AvgDepth))>> \o rules
                  ELSE rules
        ELSE rules

create_auto_rules(rules, metric_storage) ==
    LET current == metric_storage.current
    IN  IF metric_storage.kind = "History" /\ IsNumeric(current.value)
        THEN IF current.unit.raw_unit_den # "Seconds"
             THEN IF current.unit.raw_unit_num # "None" /\ current.unit.raw_unit_num # "Seconds"
                  THEN Append(rules, AutoMetricRule(current.label, current.label \o "-ps",
                                                    TimeDifferentiate))
                  ELSE rules
             ELSE IF ~ends_with(current.label, "-avg")
                  THEN Append(rules, AutoMetricRule(current.label, current.label \o "-avg",
                                                    MovingAverage(AvgDepth)))
                  ELSE rules
        ELSE rules

\* a retention rule that leaves unit-less metrics without history
NewStorage_unitless_current(agg, metric) ==
    IF metric.unit.raw_unit_num \in {"Bytes", "Bits", "Packets"}
    THEN History(metric, <<<<agg.last_timestamp, metric.value>>>>)
    ELSE CurrentOnly(metric)

\* a new History entry that starts without its first sample
NewStorage_empty_history(agg, metric) ==
    IF metric.unit.raw_unit_num \in {"Bytes", "Bits", "Packets", "None"}
    THEN History(metric, << >>)
    ELSE CurrentOnly(metric)

\* the storage a newly seen metric is given (the match of lines 165-179)
NewStorage(agg, metric) ==
    IF metric.unit.raw_unit_num \in {"Bytes", "Bits", "Packets", "None"}
    THEN History(metric, <<<<agg.last_timestamp, metric.value>>>>)
    ELSE CurrentOnly(metric)

\* an upsert that pushes the sample of an existing History entry but keeps its current
handle_incoming_metric_stale(agg, metric, parent_metric) ==
    IF metric.label \in DOMAIN agg.metrics
    THEN LET metric_storage == agg.metrics[metric.label].storage
         IN  IF metric_storage.kind = "History"
             THEN [agg EXCEPT !.metrics[metric.label].storage =
                      History(metric_storage.current,
                              vec_shift(metric_storage.history,
                                        <<agg.last_timestamp, metric.value>>,
                                        MaxHistory))]
             ELSE [agg EXCEPT !.metrics[metric.label].storage = CurrentOnly(metric)]
    ELSE LET metric_storage == NewStorage(agg, metric)
         IN  [agg EXCEPT
                 !.auto_metric_rules = create_auto_rules(@, metric_storage),
                 !.metrics = (metric.label :> MetricEntry_new(metric_storage, parent_metric)) @@ @]

\* an upsert that decides the storage kind again from the incoming unit
handle_incoming_metric_redecide(agg, metric, parent_metric) ==
    IF metric.label \in DOMAIN agg.metrics
    THEN LET metric_storage == agg.metrics[metric.label].storage
         IN  IF metric_storage.kind = "History" /\ NewStorage(agg, metric).kind = "History"
             THEN [agg EXCEPT !.metrics[metric.label].storage =
                      History(metric,
                              vec_shift(metric_storage.history,
                                        <<agg.last_timestamp, metric.value>>,
                                        MaxHistory))]
             ELSE [agg EXCEPT !.metrics[metric.label].storage = NewStorage(agg, metric)]
    ELSE LET metric_storage == NewStorage(agg, metric)
         IN  [agg EXCEPT
                 !.auto_metric_rules = create_auto_rules(@, metric_storage),
                 !.metrics = (metric.label :> MetricEntry_new(metric_storage, parent_metric)) @@ @]

\* an upsert that records the parent of every call, not only of the first
handle_incoming_metric_reparent(agg, metric, parent_metric) ==
    IF metric.label \in DOMAIN agg.metrics
    THEN LET metric_storage == agg.metrics[metric.label].storage
         IN  IF metric_storage.kind = "History"
             THEN [agg EXCEPT !.metrics[metric.label] =
                      MetricEntry_new(History(metric,
                                              vec_shift(metric_storage.history,
                                                        <<agg.last_timestamp, metric.value>>,
                                                        MaxHistory)),
                                      parent_metric)]
             ELSE [agg EXCEPT !.metrics[metric.label] =
                      MetricEntry_new(CurrentOnly(metric), parent_metric)]
    ELSE LET metric_storage == NewStorage(agg, metric)
         IN  [agg EXCEPT
                 !.auto_metric_rules = create_auto_rules(@, metric_storage),
                 !.metrics = (metric.label :> MetricEntry_new(metric_storage, parent_metric)) @@ @]

\* an upsert that passes every metric through the gate, not only a new label's
handle_incoming_metric_regate(agg, metric, parent_metric) ==
    IF metric.label \in DOMAIN agg.metrics
    THEN LET metric_storage == agg.metrics[metric.label].storage
         IN  IF metric_storage.kind = "History"
             THEN LET storage == History(metric,
                                         vec_shift(metric_storage.history,
                                                   <<agg.last_timestamp, metric.value>>,
                                                   MaxHistory))
                  IN  [agg EXCEPT !.metrics[metric.label].storage = storage,
                                  !.auto_metric_rules = create_auto_rules(@, storage)]
             ELSE [agg EXCEPT !.metrics[metric.label].storage = CurrentOnly(metric)]
    ELSE LET metric_storage == NewStorage(agg, metric)
         IN  [agg EXCEPT
                 !.auto_metric_rules = create_auto_rules(@, metric_storage),
                 !.metrics = (metric.label :> MetricEntry_new(metric_storage, parent_metric)) @@ @]

handle_incoming_metric(agg, metric, parent_metric) ==
    IF metric.label \in DOMAIN agg.metrics
    THEN LET metric_storage == agg.metrics[metric.label].storage
         IN  IF metric_storage.kind = "History"
             THEN [agg EXCEPT !.metrics[metric.label].storage =
                      History(metric,
                              vec_shift(metric_storage.history,
                                        <<agg.last_timestamp, metric.value>>,
                                        MaxHistory))]
             ELSE [agg EXCEPT !.metrics[metric.label].storage = CurrentOnly(metric)]
    ELSE LET metric_storage == NewStorage(agg, metric)
         IN  [agg EXCEPT
                 !.auto_metric_rules = create_auto_rules(@, metric_storage),
                 !.metrics = (metric.label :> MetricEntry_new(metric_storage, parent_metric)) @@ @]

\* A u64 difference is kept as the signed integer first - current: a negative
\* value d stands for the wrapped u64 value 2^64 + d that a build without
\* overflow checks computes.
U64Ge(x, threshold) == x < 0 \/ x >= threshold

\* time_diff_us as f64 * 1e-6 for a difference that did not wrap
TimeDiffSeconds(time_diff_us) == Rat(time_diff_us, 1000000)

\* The scan of lines 232-250 from history index i on. acc is
\* [gen |-> the candidate generated so far, panic |-> the subtraction overflowed
\* in a build with overflow checks].
RECURSIVE TimeDiffScan(_, _, _, _, _, _, _)
TimeDiffScan(history, i, acc, src_unit, dst_name, desired_deltat_diffs_us, checks) ==
    IF i > Len(history) \/ acc.panic
    THEN acc
    ELSE LET first == history[1]
             current == history[i]
             time_diff_us == first[1] - current[1]
             next ==
                 IF time_diff_us < 0 /\ checks
                 THEN [acc EXCEPT !.panic = TRUE]
                 ELSE IF U64Ge(time_diff_us, desired_deltat_diffs_us)
                      THEN [acc EXCEPT !.gen =
                               IF time_diff_us < 0
                               \* wrapped: about 1.8e13 seconds, any modelled
                               \* difference of values divided by it truncates to 0
                               THEN Some(Metric_new(dst_name,
                                        metric_from_time_diff(first[2], current[2], src_unit,
                                            dst_name, <<1, 1>>)[1].unit,
                                        Integer(0)))
                               ELSE metric_from_time_diff(first[2], current[2], src_unit,
                                        dst_name, TimeDiffSeconds(time_diff_us))]
                      ELSE acc
         IN  TimeDiffScan(history, i + 1, next, src_unit, dst_name,
                          desired_deltat_diffs_us, checks)

RECURSIVE SumF64(_, _)
SumF64(history, n) ==
    IF n = 0 THEN <<0, 1>> ELSE RatAdd(SumF64(history, n - 1), F64From(history[n][2]))

Min(a, b) == IF a < b THEN a ELSE b

\* a moving average that does not stop at depth samples
GenerateMetric_whole_history(agg, auto_rule, checks) ==
    LET none == [gen |-> NoneOpt, panic |-> FALSE]
    IN  IF auto_rule.src_metric_name \notin DOMAIN agg.metrics
        THEN none
        ELSE LET storage == agg.metrics[auto_rule.src_metric_name].storage
             IN  IF storage.kind # "History"
                 THEN none
                 ELSE CASE auto_rule.rule_type.tag = "TimeDifferentiate" ->
                             IF Len(storage.history) = 0
                             THEN none
                             ELSE TimeDiffScan(storage.history, 2, none, storage.current.unit,
                                               auto_rule.dst_metric_name, DEFAULT_DELTAT, checks)
                        [] auto_rule.rule_type.tag = "MovingAverage" ->
                             LET count == Len(storage.history)
                             IN  IF count > 0
                                 THEN [gen |-> metric_from_avg(
                                                  RatDiv(SumF64(storage.history, count),
                                                         <<count, 1>>),
                                                  storage.current.unit,
                                                  auto_rule.dst_metric_name),
                                       panic |-> FALSE]
                                 ELSE none
                        [] OTHER -> none

\* One iteration of the loop of handle_auto_rules up to line 277: the metric
\* rule auto_rule generates from the store as it is, if any.
GenerateMetric(agg, auto_rule, checks) ==
    LET none == [gen |-> NoneOpt, panic |-> FALSE]
    IN  IF auto_rule.src_metric_name \notin DOMAIN agg.metrics
        THEN none
        ELSE LET storage == agg.metrics[auto_rule.src_metric_name].storage
             IN  IF storage.kind # "History"
                 THEN none
                 ELSE CASE auto_rule.rule_type.tag = "TimeDifferentiate" ->
                             IF Len(storage.history) = 0
                             THEN none
                             ELSE TimeDiffScan(storage.history, 2, none, storage.current.unit,
                                               auto_rule.dst_metric_name, DEFAULT_DELTAT, checks)
                        [] auto_rule.rule_type.tag = "MovingAverage" ->
                             LET count == Min(auto_rule.rule_type.depth, Len(storage.history))
                             IN  IF count > 0
                                 THEN [gen |-> metric_from_avg(
                                                  RatDiv(SumF64(storage.history, count),
                                                         <<count, 1>>),
                                                  storage.current.unit,
                                                  auto_rule.dst_metric_name),
                                       panic |-> FALSE]
                                 ELSE none
                        [] OTHER -> none

\* A run of handle_metrics is the record
\*   [agg |-> the aggregator, calls |-> the handle_incoming_metric calls made so
\*    far, panicked |-> the run has panicked].
UpsertStep(st, metric, parent_metric) ==
    [st EXCEPT !.agg = handle_incoming_metric(st.agg, metric, parent_metric),
               !.calls = Append(@, [metric |-> metric, parent |-> parent_metric])]

\* a pass that runs a rule only when its source was upserted in the batch
AutoRuleStep_changed_only(st, auto_rule_index, checks) ==
    LET auto_rule == st.agg.auto_metric_rules[auto_rule_index]
        g == GenerateMetric(st.agg, auto_rule, checks)
        changed == \E k \in DOMAIN st.calls : st.calls[k].metric.label = auto_rule.src_metric_name
    IN  IF ~changed
        THEN st
        ELSE IF g.panic
             THEN [st EXCEPT !.panicked = TRUE]
             ELSE IF IsSome(g.gen)
                  THEN UpsertStep(st, g.gen[1], Some(auto_rule.src_metric_name))
                  ELSE st

\* the body of the loop of handle_auto_rules for index auto_rule_index (1-based)
AutoRuleStep(st, auto_rule_index, checks) ==
    LET auto_rule == st.agg.auto_metric_rules[auto_rule_index]
        g == GenerateMetric(st.agg, auto_rule, checks)
    IN  IF g.panic
        THEN [st EXCEPT !.panicked = TRUE]
        ELSE IF IsSome(g.gen)
             THEN UpsertStep(st, g.gen[1], Some(auto_rule.src_metric_name))
             ELSE st

\* for auto_rule_index in 0..self.auto_metric_rules.len(): the range is
\* evaluated once, so rules pushed during the pass are not run in it
RECURSIVE AutoRulesFrom(_, _, _, _)
AutoRulesFrom(st, auto_rule_index, len, checks) ==
    IF auto_rule_index > len \/ st.panicked
    THEN st
    ELSE AutoRulesFrom(AutoRuleStep(st, auto_rule_index, checks), auto_rule_index + 1, len, checks)

\* a pass that goes on to the rules created while it ran
handle_auto_rules_to_end(st, checks) ==
    LET len == Len(st.agg.auto_metric_rules)
        first == AutoRulesFrom(st, 1, len, checks)
    IN  AutoRulesFrom(first, len + 1, Len(first.agg.auto_metric_rules), checks)

handle_auto_rules(st, checks) ==
    AutoRulesFrom(st, 1, Len(st.agg.auto_metric_rules), checks)

RECURSIVE UpsertAll(_, _, _)
UpsertAll(st, metrics, i) ==
    IF i > Len(metrics) THEN st ELSE UpsertAll(UpsertStep(st, metrics[i], NoneOpt), metrics, i + 1)

\* a batch that is counted before its timestamp is taken (after the upserts)
BeginBatch_counts_only(agg, new_timestamp) ==
    [agg EXCEPT !.messages_received = @ + 1]

\* lines 132-135
BeginBatch(agg, new_timestamp) ==
    [agg EXCEPT !.last_timestamp = new_timestamp, !.messages_received = @ + 1]

handle_metrics(agg, new_timestamp, metrics, checks) ==
    handle_auto_rules(
        UpsertAll([agg |-> BeginBatch(agg, new_timestamp), calls |-> << >>, panicked |-> FALSE],
                  metrics, 1),
        checks)

\* read accessors
get_metric(agg, name) ==
    IF name \in DOMAIN agg.metrics THEN Some(agg.metrics[name].storage.current) ELSE NoneOpt

get_last_timestamp(agg) == agg.last_timestamp

\* f64::max and f64::min
F64Max(a, b) == IF RatLess(a, b) THEN b ELSE a

F64Min(a, b) == IF RatLess(b, a) THEN b ELSE a

\* Vec::resize(new_len, value)
resize(data, new_len, value) ==
    [i \in 1..new_len |-> IF i <= Len(data) THEN data[i] ELSE value]

\* a scan that fills the window newest first
HistoryScan_newest_first(history, idx, requested_len, acc) ==
    LET current == history[idx + 1]
        current_metric_val == F64From(current[2])
    IN  [data    |-> IF idx < requested_len
                     THEN [acc.data EXCEPT ![idx + 1] =
                               <<Rat(current[1], 1000000), current_metric_val>>]
                     ELSE acc.data,
         max_val |-> Some(F64Max(current_metric_val,
                                 IF IsSome(acc.max_val) THEN acc.max_val[1] ELSE <<0, 1>>)),
         min_val |-> Some(F64Min(current_metric_val,
                                 IF IsSome(acc.min_val) THEN acc.min_val[1]
                                 ELSE current_metric_val))]

\* the body of the loop of lines 347-361 for index idx (0-based); acc is
\* [data, max_val, min_val]
HistoryScan(history, idx, requested_len, acc) ==
    LET current == history[idx + 1]
        current_metric_val == F64From(current[2])
    IN  [data    |-> IF idx < requested_len
                     THEN [acc.data EXCEPT ![requested_len - idx] =    \* data[requested_len - idx - 1]
                               <<Rat(current[1], 1000000), current_metric_val>>]
                     ELSE acc.data,
         max_val |-> Some(F64Max(current_metric_val,
                                 IF IsSome(acc.max_val) THEN acc.max_val[1] ELSE <<0, 1>>)),
         min_val |-> Some(F64Min(current_metric_val,
                                 IF IsSome(acc.min_val) THEN acc.min_val[1]
                                 ELSE current_metric_val))]

RECURSIVE HistoryScanFrom(_, _, _, _)
HistoryScanFrom(history, idx, requested_len, acc) ==
    IF idx >= Len(history)
    THEN acc
    ELSE HistoryScanFrom(history, idx + 1, requested_len,
                         HistoryScan(history, idx, requested_len, acc))

\* a query that also answers for entries whose current value is not numeric
get_metric_history_any_value(agg, name, data, max_len) ==
    IF name \in DOMAIN agg.metrics /\ agg.metrics[name].storage.kind = "History"
    THEN LET history == agg.metrics[name].storage.history
             requested_len == Min(max_len, Len(history))
             acc == HistoryScanFrom(history, 0, requested_len,
                        [data    |-> resize(data, requested_len, <<<<0, 1>>, <<0, 1>>>>),
                         max_val |-> NoneOpt,
                         min_val |-> NoneOpt])
         IN  [result |-> IF IsSome(acc.max_val) /\ IsSome(acc.min_val)
                         THEN Some(<<acc.min_val[1], acc.max_val[1]>>)
                         ELSE NoneOpt,
              data   |-> acc.data]
    ELSE [result |-> NoneOpt, data |-> data]

\* MetricAggregator::get_metric_history: the Option it returns and the
\* caller's buffer after the call
get_metric_history(agg, name, data, max_len) ==
    IF /\ name \in DOMAIN agg.metrics
       /\ agg.metrics[name].storage.kind = "History"
       /\ IsNumeric(agg.metrics[name].storage.current.value)
    THEN LET history == agg.metrics[name].storage.history
             requested_len == Min(max_len, Len(history))
             acc == HistoryScanFrom(history, 0, requested_len,
                        [data    |-> IF Len(data) # requested_len
                                     THEN resize(data, requested_len, <<<<0, 1>>, <<0, 1>>>>)
                                     ELSE data,
                         max_val |-> NoneOpt,
                         min_val |-> NoneOpt])
         IN  [result |-> IF IsSome(acc.max_val) /\ IsSome(acc.min_val)
                         THEN Some(<<acc.min_val[1], acc.max_val[1]>>)
                         ELSE NoneOpt,
              data   |-> acc.data]
    ELSE [result |-> NoneOpt, data |-> data]

-----------------------------------------------------------------------------------------------------------------------------------------------------
(* Traces kept beside the aggregator *)

RECURSIVE PushedAfter(_, _, _, _)
PushedAfter(p, cs, ts, i) ==
    IF i > Len(cs)
    THEN p
    ELSE LET l == cs[i].metric.label
             old == IF l \in DOMAIN p THEN p[l] ELSE << >>
         IN  PushedAfter((l :> (<<<<ts, cs[i].metric>>>> \o old)) @@ p, cs, ts, i + 1)

RECURSIVE FirstSeenAfter(_, _, _)
FirstSeenAfter(f, cs, i) ==
    IF i > Len(cs)
    THEN f
    ELSE FirstSeenAfter(IF cs[i].metric.label \in DOMAIN f THEN f ELSE (cs[i].metric.label :> cs[i]) @@ f,
                        cs, i + 1)

-----------------------------------------------------------------------------
(* Inputs *)

U(n, d) == MetricUnit_new(n, d, "One")

\* batch timestamps (microseconds); batches may arrive with equal or smaller ones
Timestamps == {0, 300000, 600000}

Batches ==
    { << >>,
      <<Metric_new("c", U("Bytes", "None"), Integer(1000))>>,
      <<Metric_new("c", U("Bytes", "None"), Integer(4000))>>,
      <<Metric_new("c", U("Seconds", "None"), String("s"))>>,
      <<Metric_new("c-ps", U("Seconds", "None"), Empty),
        Metric_new("c", U("Bytes", "None"), Integer(4000))>>,
      <<Metric_new("r", U("Packets", "Seconds"), Number(<<1, 2>>)),
        Metric_new("r", U("None", "None"), Integer(2))>>,
      <<Metric_new("t", U("Seconds", "Seconds"), Integer(5)),
        Metric_new("t", U("Bits", "None"), Integer(6))>>,
      <<Metric_new("x-avg", U("Bits", "Seconds"), Integer(8))>> }

\* every unit, and a value of every type, under a plain label and one ending in "-avg"
AllUnits ==
    {MetricUnit_new(n, d, o) : n \in MetricRawUnit, d \in MetricRawUnit, o \in OrderOfMagnitude}

AllValues == {Empty, Integer(0), Integer(-7), Number(<<5, 2>>), String("up")}

AllMetrics == {Metric_new(l, u, v) : l \in {"m", "m-avg"}, u \in AllUnits, v \in AllValues}

\* what a label seen once may be upserted with next
AgainMetrics ==
    {Metric_new(l, u, v) : l \in {"m", "m-avg"},
                           u \in {U("Bytes", "None"), U("Seconds", "None"), U("Bits", "Seconds")},
                           v \in {Integer(3000), String("up")}}

\* a counter and a gauge, for long runs
RingTimestamps == {0, 300000}

RingBatches ==
    { <<Metric_new("c", U("Packets", "None"), Integer(1))>>,
      <<Metric_new("c", U("Packets", "None"), Integer(2)),
        Metric_new("g", U("Seconds", "None"), Integer(2))>>,
      <<Metric_new("c", U("Seconds", "None"), String("s"))>> }

\* two counters ingested one at a time, a third of a second or a second apart
ScenarioTimestamps == {0, 300000, 1000000}

ScenarioBatches ==
    { <<Metric_new("ctr", U("Bytes", "None"), Integer(1000))>>,
      <<Metric_new("ctr", U("Bytes", "None"), Integer(3000))>>,
      <<Metric_new("pkts", U("Packets", "None"), Integer(100))>>,
      <<Metric_new("pkts", U("Packets", "None"), Integer(130))>> }

\* rates that are averaged: "r" is ingested, "c-ps" is ingested and generated
AverageTimestamps == {0, 300000}

AverageBatches ==
    { <<Metric_new("r", U("Packets", "Seconds"), Integer(4))>>,
      <<Metric_new("r", U("Packets", "Seconds"), Integer(10))>>,
      <<Metric_new("r", U("Packets", "Seconds"), String("up"))>>,
      <<Metric_new("c-ps", U("Packets", "Seconds"), Integer(6))>>,
      <<Metric_new("c", U("Packets", "None"), Integer(100))>>,
      <<Metric_new("c", U("Packets", "None"), Integer(130))>> }

\* a metric with history whose values have both signs and every type, and a gauge
QueryBatches ==
    { <<Metric_new("h", U("Packets", "None"), Integer(-5))>>,
      <<Metric_new("h", U("Packets", "None"), Number(<<5, 2>>))>>,
      <<Metric_new("h", U("Packets", "None"), String("up"))>>,
      <<Metric_new("g", U("Seconds", "None"), Integer(2)),
        Metric_new("h", U("Packets", "None"), Empty)>> }

\* labels asked for: with history, without, and never upserted
QueryLabels == {"h", "g", "zz"}

\* what the caller's buffer holds before the call
QueryBuffers == { << >>, << <<<<9, 1>>, <<9, 1>>>>, <<<<8, 1>>, <<8, 1>>>> >> }

\* a rate that is declared again as a counter, next to a plain counter
ChainTimestamps == {0, 300000}

ChainBatches ==
    { << >>,
      <<Metric_new("r", U("Packets", "Seconds"), Integer(4)),
        Metric_new("r", U("Bytes", "None"), Integer(8000))>>,
      <<Metric_new("r", U("Bytes", "None"), Integer(12000))>>,
      <<Metric_new("c", U("Bytes", "None"), Integer(1000))>>,
      <<Metric_new("c", U("Bytes", "None"), Integer(4000))>> }

-----------------------------------------------------------------------------------------------------------------------------------------------------
(* Backend: src/src/backend.rs *)

Readers == {"r1", "r2"}

\* what a registered callback does: "plain" does not touch the Backend,
\* "reenter" calls a Backend read method when it can borrow the Backend
CallbackKinds == {"plain", "reenter"}

BackendTimestamps == {0, 300000}

BackendBatches ==
    { <<Metric_new("c", U("Bytes", "None"), Integer(4000)),
        Metric_new("g", U("Seconds", "None"), Integer(2))>> }

Mutex_new == [holder |-> "free", poisoned |-> FALSE]

NoMsg == [timestamp |-> 0, metrics |-> << >>]

MetricCollection_new(timestamp, metrics) == [timestamp |-> timestamp, metrics |-> metrics]

\* connect and disconnect take &mut self, the other methods &self: a &mut call
\* runs only while no & call is in progress, and a & call only while no &mut
\* call is.
NoSharedBorrow ==
    /\ \A r \in Readers : reader_pc[r] \in {"idle", "panicked"}
    /\ task_pc # "cb_deadlocked"

NoExclusiveBorrow == ctl_pc \in {"idle", "panicked"}

\* the trace of calls after a call with this outcome
Logged(outcome) ==
    IF ctl_log = << >> THEN <<outcome>> ELSE <<ctl_log[Len(ctl_log)], outcome>>

\* connect without the check of task_join_handle: it always spawns
Connect_no_check ==
    /\ ctl_pc = "idle"
    /\ NoSharedBorrow
    /\ ctl_log' = Logged("connect_ok")
    /\ quit_chan' = "open"
    /\ quit_signal' = Some("sender")
    /\ task_join_handle' = Some("task")
    /\ task_pc' = "select"
    /\ task_msg' = NoMsg
    /\ task_i' = 0
    /\ task_len' = 0
    /\ do_reconnect' = FALSE
    /\ connected' = TRUE
    /\ UNCHANGED <<aggVars, callbacks, agg_mutex, cb_mutex, reader_pc, ctl_pc, committed, invoked,
                   events, received>>

\* a connect whose error return drops the quit signal sender
Connect_err_drops_sender ==
    /\ ctl_pc = "idle"
    /\ NoSharedBorrow
    /\ IF IsSome(task_join_handle)
       THEN /\ ctl_log' = Logged("connect_err")
            /\ quit_signal' = NoneOpt
            /\ quit_chan' = "closed"
            /\ UNCHANGED <<task_join_handle, task_pc, task_msg, task_i, task_len, do_reconnect,
                           connected>>
       ELSE /\ ctl_log' = Logged("connect_ok")
            /\ quit_chan' = "open"
            /\ quit_signal' = Some("sender")
            /\ task_join_handle' = Some("task")
            /\ task_pc' = "select"
            /\ task_msg' = NoMsg
            /\ task_i' = 0
            /\ task_len' = 0
            /\ do_reconnect' = FALSE
            /\ connected' = TRUE
    /\ UNCHANGED <<aggVars, callbacks, agg_mutex, cb_mutex, reader_pc, ctl_pc, committed, invoked,
                   events, received>>

\* Backend::connect
Connect ==
    /\ ctl_pc = "idle"
    /\ NoSharedBorrow
    /\ IF IsSome(task_join_handle)
       THEN \* Err("already connected")
            /\ ctl_log' = Logged("connect_err")
            /\ UNCHANGED <<task_join_handle, quit_signal, quit_chan, task_pc, task_msg, task_i,
                           task_len, do_reconnect, connected>>
       ELSE \* PrometheusPollEndpoint::new is always Ok; the task is spawned
            /\ ctl_log' = Logged("connect_ok")
            /\ quit_chan' = "open"
            /\ quit_signal' = Some("sender")
            /\ task_join_handle' = Some("task")
            /\ task_pc' = "select"
            /\ task_msg' = NoMsg
            /\ task_i' = 0
            /\ task_len' = 0
            /\ do_reconnect' = FALSE
            /\ connected' = TRUE
    /\ UNCHANGED <<aggVars, callbacks, agg_mutex, cb_mutex, reader_pc, ctl_pc, committed, invoked,
                   events, received>>

\* disconnect without take(): the sender stays in the Backend
DisconnectSend_keeps_sender ==
    /\ ctl_pc = "idle"
    /\ NoSharedBorrow
    /\ IF quit_signal = NoneOpt
       THEN /\ ctl_log' = Logged("disconnect_noop")
            /\ UNCHANGED <<quit_signal, quit_chan, task_join_handle, ctl_pc>>
       ELSE /\ ctl_log' = Logged("disconnect")
            /\ UNCHANGED quit_signal
            /\ IF quit_chan = "open"
               THEN /\ quit_chan' = "sent"
                    /\ task_join_handle' = NoneOpt
                    /\ ctl_pc' = "join"
               ELSE /\ ctl_pc' = "panicked"
                    /\ UNCHANGED <<quit_chan, task_join_handle>>
    /\ UNCHANGED <<aggVars, callbacks, agg_mutex, cb_mutex, task_pc, task_msg, task_i, task_len,
                   do_reconnect, reader_pc, connected, committed, invoked, events, received>>

\* Backend::disconnect up to the await of the join handle (lines 164-169)
DisconnectSend ==
    /\ ctl_pc = "idle"
    /\ NoSharedBorrow
    /\ IF quit_signal = NoneOpt
       THEN \* nothing to do: the call returns
            /\ ctl_log' = Logged("disconnect_noop")
            /\ UNCHANGED <<quit_signal, quit_chan, task_join_handle, ctl_pc>>
       ELSE /\ ctl_log' = Logged("disconnect")
            /\ quit_signal' = NoneOpt
            /\ IF quit_chan = "open"
               THEN \* send(()) is Ok; take the join handle and await it
                    /\ quit_chan' = "sent"
                    /\ task_join_handle' = NoneOpt
                    /\ ctl_pc' = "join"
               ELSE \* the receiver is gone: send(()) is Err and unwrap() panics
                    /\ ctl_pc' = "panicked"
                    /\ UNCHANGED <<quit_chan, task_join_handle>>
    /\ UNCHANGED <<aggVars, callbacks, agg_mutex, cb_mutex, task_pc, task_msg, task_i, task_len,
                   do_reconnect, reader_pc, connected, committed, invoked, events, received>>

\* disconnect that does not wait for the task
DisconnectJoin_no_wait ==
    /\ ctl_pc = "join"
    /\ ctl_pc' = "idle"
    /\ connected' = FALSE
    /\ UNCHANGED <<aggVars, task_join_handle, quit_signal, callbacks, agg_mutex, cb_mutex,
                   quit_chan, task_pc, task_msg, task_i, task_len, do_reconnect, reader_pc,
                   ctl_log, committed, invoked, events, received>>

\* jh.await returns once the task has ended (lines 171-176)
DisconnectJoin ==
    /\ ctl_pc = "join"
    /\ task_pc \in {"done", "panicked"}
    /\ ctl_pc' = "idle"
    /\ connected' = FALSE
    /\ UNCHANGED <<aggVars, task_join_handle, quit_signal, callbacks, agg_mutex, cb_mutex,
                   quit_chan, task_pc, task_msg, task_i, task_len, do_reconnect, reader_pc,
                   ctl_log, committed, invoked, events, received>>

\* add_callback that returns with the guard of the callback list leaked
AddCallback_keeps_guard(kind) ==
    /\ NoExclusiveBorrow
    /\ Len(callbacks) < MaxCallbacks
    /\ cb_mutex = Mutex_new
    /\ callbacks' = Append(callbacks, kind)
    /\ cb_mutex' = [cb_mutex EXCEPT !.holder = "caller"]
    /\ UNCHANGED <<aggVars, task_join_handle, quit_signal, agg_mutex, quit_chan, task_pc,
                   task_msg, task_i, task_len, do_reconnect, reader_pc, ctl_pc, ctl_log,
                   connected, committed, invoked, events, received>>

\* Backend::add_callback: lock the list, push, unlock
AddCallback(kind) ==
    /\ NoExclusiveBorrow
    /\ Len(callbacks) < MaxCallbacks
    /\ cb_mutex = Mutex_new
    /\ callbacks' = Append(callbacks, kind)
    /\ UNCHANGED <<aggVars, task_join_handle, quit_signal, agg_mutex, cb_mutex, quit_chan, task_pc,
                   task_msg, task_i, task_len, do_reconnect, reader_pc, ctl_pc, ctl_log,
                   connected, committed, invoked, events, received>>

readerFrame ==
    <<aggVars, task_join_handle, quit_signal, callbacks, cb_mutex, quit_chan, task_pc, task_msg,
      task_i, task_len, do_reconnect, ctl_pc, ctl_log, connected, committed, invoked, events,
      received>>

\* a reader enters visit_metrics, map_metrics, get_metric_history,
\* get_last_timestamp or fetch_updates: each begins with aggregator.lock()
ReaderCall(r) ==
    /\ NoExclusiveBorrow
    /\ reader_pc[r] = "idle"
    /\ reader_pc' = [reader_pc EXCEPT ![r] = "waiting"]
    /\ UNCHANGED <<readerFrame, agg_mutex>>

\* a read that does not wait for the mutex
ReaderLock_no_wait(r) ==
    /\ reader_pc[r] = "waiting"
    /\ reader_pc' = [reader_pc EXCEPT ![r] = "holding"]
    /\ UNCHANGED <<readerFrame, agg_mutex>>

\* self.aggregator.lock().unwrap() of the read methods
ReaderLock(r) ==
    /\ reader_pc[r] = "waiting"
    /\ agg_mutex.holder = "free"
    /\ IF agg_mutex.poisoned
       THEN /\ reader_pc' = [reader_pc EXCEPT ![r] = "panicked"]
            /\ UNCHANGED agg_mutex
       ELSE /\ reader_pc' = [reader_pc EXCEPT ![r] = "holding"]
            /\ agg_mutex' = [agg_mutex EXCEPT !.holder = r]
    /\ UNCHANGED readerFrame

\* a read method that returns with its guard leaked
ReaderReturn_keeps_guard(r) ==
    /\ reader_pc[r] = "holding"
    /\ reader_pc' = [reader_pc EXCEPT ![r] = "idle"]
    /\ UNCHANGED <<readerFrame, agg_mutex>>

\* the read method returns and its guard is dropped
ReaderReturn(r) ==
    /\ reader_pc[r] = "holding"
    /\ reader_pc' = [reader_pc EXCEPT ![r] = "idle"]
    /\ agg_mutex' = [agg_mutex EXCEPT !.holder = IF @ = r THEN "free" ELSE @]
    /\ UNCHANGED readerFrame

taskFrame == <<overflow_checks, traceVars, task_join_handle, quit_signal, callbacks, reader_pc,
               ctl_pc, ctl_log, connected>>

\* recv_msg() is Ok(msg): reset the timer (lines 198-200)
TaskRecvOk(timestamp, metrics) ==
    /\ task_pc = "select"
    /\ events < MaxEvents
    /\ events' = events + 1
    /\ task_msg' = MetricCollection_new(timestamp, metrics)
    /\ task_pc' = "lock_agg"
    /\ do_reconnect' = FALSE
    /\ invoked' = << >>
    /\ received' = [idle |-> do_reconnect, agg |-> aggregator]
    /\ UNCHANGED <<taskFrame, aggregator, agg_mutex, cb_mutex, quit_chan, task_i, task_len,
                   committed>>

\* an error branch that counts the failed receive as a message
TaskRecvErr_counts ==
    /\ task_pc = "select"
    /\ events < MaxEvents
    /\ events' = events + 1
    /\ do_reconnect' = TRUE
    /\ aggregator' = [aggregator EXCEPT !.messages_received = @ + 1]
    /\ UNCHANGED <<taskFrame, agg_mutex, cb_mutex, quit_chan, task_pc, task_msg,
                   task_i, task_len, committed, invoked, received>>

\* recv_msg() is Err (lines 221-225)
TaskRecvErr ==
    /\ task_pc = "select"
    /\ events < MaxEvents
    /\ events' = events + 1
    /\ do_reconnect' = TRUE
    /\ UNCHANGED <<taskFrame, aggregator, agg_mutex, cb_mutex, quit_chan, task_pc, task_msg,
                   task_i, task_len, committed, invoked, received>>

\* the idle timer elapsed (lines 231-237)
TaskTimeout ==
    /\ task_pc = "select"
    /\ events < MaxEvents
    /\ events' = events + 1
    /\ do_reconnect' = TRUE
    /\ UNCHANGED <<taskFrame, aggregator, agg_mutex, cb_mutex, quit_chan, task_pc, task_msg,
                   task_i, task_len, committed, invoked, received>>

\* the quit signal was received: break (lines 227-230)
TaskQuit ==
    /\ task_pc = "select"
    /\ quit_chan = "sent"
    /\ task_pc' = "done"
    /\ quit_chan' = "closed"
    /\ do_reconnect' = FALSE
    /\ UNCHANGED <<taskFrame, aggregator, agg_mutex, cb_mutex, task_msg, task_i, task_len,
                   committed, invoked, events, received>>

\* The task panics: its guards are dropped while unwinding, which poisons the
\* mutexes it holds, and the future with the signal receiver is dropped.
Unwound(m) == IF m.holder = "task" THEN [holder |-> "free", poisoned |-> TRUE] ELSE m

TaskPanics ==
    /\ task_pc' = "panicked"
    /\ agg_mutex' = Unwound(agg_mutex)
    /\ cb_mutex' = Unwound(cb_mutex)
    /\ quit_chan' = "closed"

\* aggregator.lock().unwrap() (line 209)
TaskLockAgg ==
    /\ task_pc = "lock_agg"
    /\ agg_mutex.holder = "free"
    /\ IF agg_mutex.poisoned
       THEN TaskPanics
       ELSE /\ agg_mutex' = [agg_mutex EXCEPT !.holder = "task"]
            /\ task_pc' = "begin"
            /\ UNCHANGED <<cb_mutex, quit_chan>>
    /\ UNCHANGED <<taskFrame, aggregator, task_msg, task_i, task_len, do_reconnect, committed,
                   invoked, events, received>>

\* where handle_metrics goes after the metric of index i, given the rules
AfterUpsert(i, agg) ==
    IF i < Len(task_msg.metrics) THEN "upsert"
    ELSE IF Len(agg.auto_metric_rules) > 0 THEN "rules" ELSE "lock_cb"

\* handle_metrics, lines 132-135: the timestamp and the message counter
TaskBegin ==
    /\ task_pc = "begin"
    /\ aggregator' = BeginBatch(aggregator, task_msg.timestamp)
    /\ task_pc' = AfterUpsert(0, aggregator)
    /\ task_i' = 1
    /\ task_len' = Len(aggregator.auto_metric_rules)
    /\ committed' = IF task_pc' = "lock_cb"
                    THEN handle_metrics(committed, task_msg.timestamp, task_msg.metrics,
                                        overflow_checks).agg
                    ELSE committed
    /\ UNCHANGED <<taskFrame, agg_mutex, cb_mutex, quit_chan, task_msg, do_reconnect, invoked,
                   events, received>>

\* handle_metrics, lines 137-139: one metric of the batch
TaskUpsert ==
    /\ task_pc = "upsert"
    /\ \E agg \in {handle_incoming_metric(aggregator, task_msg.metrics[task_i], NoneOpt)} :
           /\ aggregator' = agg
           /\ task_pc' = AfterUpsert(task_i, agg)
           /\ task_i' = IF task_i < Len(task_msg.metrics) THEN task_i + 1 ELSE 1
           /\ task_len' = Len(agg.auto_metric_rules)
    /\ committed' = IF task_pc' = "lock_cb"
                    THEN handle_metrics(committed, task_msg.timestamp, task_msg.metrics,
                                        overflow_checks).agg
                    ELSE committed
    /\ UNCHANGED <<taskFrame, agg_mutex, cb_mutex, quit_chan, task_msg, do_reconnect, invoked,
                   events, received>>

\* handle_auto_rules: one rule of the pass; after the last one handle_metrics returns
TaskRule ==
    /\ task_pc = "rules"
    /\ \E st \in {AutoRuleStep([agg |-> aggregator, calls |-> << >>, panicked |-> FALSE],
                               task_i, overflow_checks)} :
           IF st.panicked
           THEN /\ TaskPanics
                /\ UNCHANGED <<aggregator, task_i, committed>>
           ELSE /\ aggregator' = st.agg
                /\ task_i' = IF task_i < task_len THEN task_i + 1 ELSE 1
                /\ task_pc' = IF task_i < task_len THEN "rules" ELSE "lock_cb"
                /\ committed' = IF task_i < task_len
                                THEN committed
                                ELSE handle_metrics(committed, task_msg.timestamp,
                                                    task_msg.metrics, overflow_checks).agg
                /\ UNCHANGED <<agg_mutex, cb_mutex, quit_chan>>
    /\ UNCHANGED <<taskFrame, task_msg, task_len, do_reconnect, invoked, events, received>>

\* the end of the `if let Ok(msg)` block: both guards are dropped
ReleaseBoth ==
    /\ agg_mutex' = [agg_mutex EXCEPT !.holder = "free"]
    /\ cb_mutex' = [cb_mutex EXCEPT !.holder = "free"]
    /\ task_pc' = "select"

\* callbacks.lock().unwrap() (line 213), with the aggregator guard still alive
TaskLockCb ==
    /\ task_pc = "lock_cb"
    /\ cb_mutex.holder = "free"
    /\ IF cb_mutex.poisoned
       THEN /\ TaskPanics
            /\ UNCHANGED task_i
       ELSE /\ IF Len(callbacks) = 0
               THEN ReleaseBoth
               ELSE /\ cb_mutex' = [cb_mutex EXCEPT !.holder = "task"]
                    /\ task_pc' = "callbacks"
                    /\ UNCHANGED agg_mutex
            /\ task_i' = 1
            /\ UNCHANGED quit_chan
    /\ UNCHANGED <<taskFrame, aggregator, task_msg, task_len, do_reconnect, committed, invoked,
                   events, received>>

\* the callback of index task_i re-enters a Backend read method
Reenters == callbacks[task_i] = "reenter" /\ NoExclusiveBorrow

\* cb() (lines 215-217) for a callback that returns
TaskCallback ==
    /\ task_pc = "callbacks"
    /\ ~Reenters \/ agg_mutex.holder # "task"
    /\ agg_mutex.holder \in {"free", "task"}
    /\ ~agg_mutex.poisoned
    /\ invoked' = Append(invoked, task_i)
    /\ IF task_i < Len(callbacks)
       THEN /\ task_i' = task_i + 1
            /\ UNCHANGED <<agg_mutex, cb_mutex, task_pc>>
       ELSE /\ task_i' = 1
            /\ ReleaseBoth
    /\ UNCHANGED <<taskFrame, aggregator, quit_chan, task_msg, task_len, do_reconnect, committed,
                   events, received>>

\* cb() for a callback that calls a Backend read method: aggregator.lock() on
\* the thread that holds the aggregator guard. std::sync::Mutex leaves this
\* unspecified: the call never returns, it deadlocks or it panics.
TaskCallbackRelock ==
    /\ task_pc = "callbacks"
    /\ Reenters
    /\ agg_mutex.holder = "task"
    /\ invoked' = Append(invoked, task_i)
    /\ \/ /\ task_pc' = "cb_deadlocked"
          /\ UNCHANGED <<agg_mutex, cb_mutex, quit_chan>>
       \/ TaskPanics
    /\ UNCHANGED <<taskFrame, aggregator, task_msg, task_i, task_len, do_reconnect, committed,
                   events, received>>

TaskStep ==
    \/ TaskLockAgg
    \/ TaskBegin
    \/ TaskUpsert
    \/ TaskRule
    \/ TaskLockCb
    \/ TaskCallback
    \/ TaskCallbackRelock

-----
(* The aggregator driven directly: one action per handle_metrics call *)

\* Backend::new, and nothing connected yet
BackendInit ==
    /\ task_join_handle = NoneOpt
    /\ quit_signal = NoneOpt
    /\ callbacks = << >>
    /\ agg_mutex = Mutex_new
    /\ cb_mutex = Mutex_new
    /\ quit_chan = "none"
    /\ task_pc = "none"
    /\ task_msg = NoMsg
    /\ task_i = 0
    /\ task_len = 0
    /\ do_reconnect = FALSE
    /\ reader_pc = [r \in Readers |-> "idle"]
    /\ ctl_pc = "idle"
    /\ ctl_log = << >>
    /\ connected = FALSE
    /\ committed = MetricAggregator_new
    /\ invoked = << >>
    /\ events = 0
    /\ received = [idle |-> FALSE, agg |-> MetricAggregator_new]

\* no get_metric_history call was made since the last batch
NoQuery == [name |-> "", max_len |-> 0, before |-> << >>, data |-> << >>, result |-> NoneOpt,
            made |-> FALSE]

AggInit ==
    /\ aggregator = MetricAggregator_new
    /\ overflow_checks \in BOOLEAN
    /\ agg_panicked = FALSE
    /\ calls = << >>
    /\ pushed = EmptyMap
    /\ first_seen = EmptyMap
    /\ batches = 0
    /\ query = NoQuery
    /\ handled_at = NoneOpt

HandleMetricsCall(new_timestamp, metrics) ==
    /\ ~agg_panicked
    /\ \E st \in {handle_metrics(aggregator, new_timestamp, metrics, overflow_checks)} :
           /\ aggregator' = st.agg
           /\ agg_panicked' = st.panicked
           /\ calls' = st.calls
           /\ pushed' = PushedAfter(pushed, st.calls, new_timestamp, 1)
           /\ first_seen' = FirstSeenAfter(first_seen, st.calls, 1)
    /\ batches' = batches + 1
    /\ query' = NoQuery
    /\ handled_at' = Some(new_timestamp)
    /\ UNCHANGED overflow_checks
    /\ UNCHANGED <<backendVars, parseVars>>

\* a caller of get_metric_history with a buffer of its own; the call reads the
\* aggregator and leaves it as it is, so one call is followed between batches
GetMetricHistoryCall(name, data, max_len) ==
    /\ ~agg_panicked
    /\ ~query.made
    /\ \E r \in {get_metric_history(aggregator, name, data, max_len)} :
           query' = [name |-> name, max_len |-> max_len, before |-> data, data |-> r.data,
                     result |-> r.result, made |-> TRUE]
    /\ UNCHANGED <<aggregator, overflow_checks, agg_panicked, calls, pushed, first_seen, batches,
                   handled_at>>
    /\ UNCHANGED <<backendVars, parseVars>>

\* nothing was parsed yet
ParseInit ==
    /\ unit_parse = NoneOpt
    /\ value_parse = NoneOpt

Init == AggInit /\ BackendInit /\ ParseInit

Next ==
    /\ batches < MaxBatches
    /\ \E ts \in Timestamps, b \in Batches : HandleMetricsCall(ts, b)

Spec == Init /\ [][Next]_vars

\* a label's first observation over every unit and value type, then one more batch
FirstObservation == batches = 0 /\ \E m \in AllMetrics : HandleMetricsCall(0, <<m>>)

SecondObservation ==
    /\ batches = 1
    /\ \E m \in AgainMetrics, ts \in RingTimestamps : HandleMetricsCall(ts, <<m>>)

NextFirst == FirstObservation \/ SecondObservation

SpecFirst == Init /\ [][NextFirst]_vars

\* long runs over few labels
NextRing ==
    /\ batches < RingDepth
    /\ \E ts \in RingTimestamps, b \in RingBatches : HandleMetricsCall(ts, b)

SpecRing == Init /\ [][NextRing]_vars

\* short runs over two counters
NextScenario ==
    /\ batches < MaxBatches
    /\ \E ts \in ScenarioTimestamps, b \in ScenarioBatches : HandleMetricsCall(ts, b)

SpecScenario == Init /\ [][NextScenario]_vars

\* short runs over rates
NextAverage ==
    /\ batches < MaxBatches
    /\ \E ts \in AverageTimestamps, b \in AverageBatches : HandleMetricsCall(ts, b)

SpecAverage == Init /\ [][NextAverage]_vars

\* batches and history queries
IngestForQuery ==
    /\ batches < MaxBatches
    /\ \E ts \in RingTimestamps, b \in QueryBatches : HandleMetricsCall(ts, b)

NextQuery ==
    \/ IngestForQuery
    \/ \E name \in QueryLabels, data \in QueryBuffers, max_len \in 0..MaxLen :
           GetMetricHistoryCall(name, data, max_len)

SpecQuery == Init /\ [][NextQuery]_vars

\* short runs over a metric whose unit changes
NextChain ==
    /\ batches < MaxBatches
    /\ \E ts \in ChainTimestamps, b \in ChainBatches : HandleMetricsCall(ts, b)

SpecChain == Init /\ [][NextChain]_vars

\* the Backend with its ingestion task, its owner and its readers
NextBackend ==
    \/ Connect
    \/ DisconnectSend
    \/ DisconnectJoin
    \/ \E kind \in CallbackKinds : AddCallback(kind)
    \/ \E r \in Readers : ReaderCall(r) \/ ReaderLock(r) \/ ReaderReturn(r)
    \/ \E ts \in BackendTimestamps, b \in BackendBatches : TaskRecvOk(ts, b)
    \/ TaskRecvErr
    \/ TaskTimeout
    \/ TaskQuit
    \/ TaskStep

SpecBackend == Init /\ [][NextBackend]_vars

TaskPcs == {"none", "select", "lock_agg", "begin", "upsert", "rules", "lock_cb", "callbacks",
            "cb_deadlocked", "done", "panicked"}

\* the task moves on from where it is inside handle_metrics
HandleMetricsMoves ==
    /\ task_pc \in {"begin", "upsert", "rules"}
    /\ task_pc' \in TaskPcs

\* The runtime polls a task that can run, handle_metrics is a finite
\* computation, a thread that holds the mutex goes on to release it, and
\* select! picks among its ready branches at random, so a quit branch that
\* stays ready is not passed over for ever.
BackendFairness ==
    /\ WF_vars(TaskLockAgg \/ TaskLockCb \/ TaskCallback \/ TaskCallbackRelock)
    /\ WF_task_pc(HandleMetricsMoves)
    /\ WF_vars(TaskQuit)
    /\ WF_vars(DisconnectJoin)
    /\ WF_vars(\E r \in Readers : ReaderReturn(r))

SpecBackendFair == SpecBackend /\ BackendFairness

\* the ingestion task, the readers and add_callback callers of a connected
\* Backend whose callbacks do not call back into it
NextLocks ==
    \/ Connect
    \/ AddCallback("plain")
    \/ \E r \in Readers : ReaderCall(r) \/ ReaderLock(r) \/ ReaderReturn(r)
    \/ \E ts \in BackendTimestamps, b \in BackendBatches : TaskRecvOk(ts, b)
    \/ TaskLockAgg
    \/ TaskBegin
    \/ TaskUpsert
    \/ TaskRule
    \/ TaskLockCb
    \/ TaskCallback

\* A thread blocked in lock() is woken when the mutex is released, so a waiter
\* is not passed over for ever although others lock the mutex in between.
LockFairness ==
    /\ SF_vars(TaskLockAgg)
    /\ \A r \in Readers : SF_vars(ReaderLock(r)) /\ WF_vars(ReaderReturn(r))

SpecLocks == Init /\ [][NextLocks]_vars /\ BackendFairness /\ LockFairness

-----------------------------------------------------------------------------
(* Claims about the metric store *)

Range(seq) == {seq[i] : i \in DOMAIN seq}

HistoryNumerators == {"Bytes", "Bits", "Packets", "None"}

\* the (timestamp, value) pairs upserted to label l, newest first
PushedSamples(l) == [i \in 1..Len(pushed[l]) |-> <<pushed[l][i][1], pushed[l][i][2].value>>]

\* C2 (ring bound): the history of every History-kind label is exactly the
\* max_history most recently upserted (timestamp, value) pairs of that label,
\* newest first; it never holds more than max_history samples, and holds
\* max_history of them once more than max_history were upserted.
C2_RingBound ==
    \A l \in DOMAIN aggregator.metrics :
        LET s == aggregator.metrics[l].storage
        IN  s.kind = "History" =>
              /\ l \in DOMAIN pushed
              /\ Len(s.history) <= MaxHistory
              /\ Len(pushed[l]) > MaxHistory => Len(s.history) = MaxHistory
              /\ s.history = SubSeq(PushedSamples(l), 1, Min(Len(pushed[l]), MaxHistory))

\* a History label upserted more often than max_history + 1 times, with samples
\* that differ, so that eviction has happened more than once
C2_Witness ==
    \E l \in DOMAIN aggregator.metrics :
        /\ aggregator.metrics[l].storage.kind = "History"
        /\ l \in DOMAIN pushed
        /\ Len(pushed[l]) > MaxHistory + 1
        /\ PushedSamples(l)[1] # PushedSamples(l)[Len(pushed[l])]

\* C7 (uniqueness): the store holds an entry for exactly the labels ever
\* upserted (directly or by a rule), and the entry's current metric is the
\* metric most recently upserted under that label.
C7_OneEntryPerLabel ==
    /\ DOMAIN aggregator.metrics = DOMAIN pushed
    /\ \A l \in DOMAIN pushed : aggregator.metrics[l].storage.current = pushed[l][1][2]

\* a directly ingested label and a rule's output label, each upserted again
\* with a metric that differs from the one before
C7_Witness ==
    \E l \in DOMAIN pushed, d \in DOMAIN pushed :
        /\ Len(pushed[l]) >= 2 /\ pushed[l][1][2] # pushed[l][2][2]
        /\ first_seen[l].parent = NoneOpt
        /\ Len(pushed[d]) >= 2 /\ pushed[d][1][2] # pushed[d][2][2]
        /\ first_seen[d].parent # NoneOpt
        /\ Cardinality(DOMAIN aggregator.metrics) = Cardinality(DOMAIN pushed)

\* C8 (retention classification): a label first observed with numerator Bytes,
\* Bits, Packets or None has History storage, a label first observed with any
\* other numerator has CurrentOnly storage, whatever the denominator, the
\* magnitude and the value.
C8_RetentionClass ==
    \A l \in DOMAIN aggregator.metrics :
        /\ l \in DOMAIN first_seen
        /\ aggregator.metrics[l].storage.kind =
              IF first_seen[l].metric.unit.raw_unit_num \in HistoryNumerators
              THEN "History"
              ELSE "CurrentOnly"

\* a unit-less label with a non-numeric first value that got History beside a
\* label first seen in seconds that got CurrentOnly
C8_Witness ==
    \E l \in DOMAIN aggregator.metrics, k \in DOMAIN aggregator.metrics :
        /\ first_seen[l].metric.unit.raw_unit_num = "None"
        /\ first_seen[l].metric.unit.raw_unit_den = "Seconds"
        /\ first_seen[l].metric.unit.order_of_magnitude = "Tera"
        /\ first_seen[l].metric.value.type = "String"
        /\ aggregator.metrics[l].storage.kind = "History"
        /\ first_seen[k].metric.unit.raw_unit_num = "Seconds"
        /\ aggregator.metrics[k].storage.kind = "CurrentOnly"

\* C9 (retention is decided once): no step changes the storage kind of a label
\* that is in the store, and no step removes a label.
C9_KindNeverChanges ==
    [][\A l \in DOMAIN aggregator.metrics :
           /\ l \in DOMAIN aggregator'.metrics
           /\ aggregator'.metrics[l].storage.kind = aggregator.metrics[l].storage.kind]_vars

\* a History entry whose current metric is in seconds and not numeric, and a
\* CurrentOnly entry whose current metric is a counter: both were upserted with
\* a unit of the other class after their first observation
C9_Witness ==
    \E l \in DOMAIN aggregator.metrics, k \in DOMAIN aggregator.metrics :
        /\ aggregator.metrics[l].storage.kind = "History"
        /\ aggregator.metrics[l].storage.current.unit.raw_unit_num = "Seconds"
        /\ aggregator.metrics[l].storage.current.value.type = "String"
        /\ first_seen[l].metric.value.type = "Integer"
        /\ aggregator.metrics[k].storage.kind = "CurrentOnly"
        /\ aggregator.metrics[k].storage.current.unit.raw_unit_num \in HistoryNumerators

\* the rules the creation gate of the specification gives a label whose first
\* observation was metric f
GateRules(f) ==
    IF f.unit.raw_unit_num \in HistoryNumerators /\ f.value.type \in {"Integer", "Number"}
    THEN IF f.unit.raw_unit_den # "Seconds" /\ f.unit.raw_unit_num \notin {"None", "Seconds"}
         THEN {AutoMetricRule(f.label, f.label \o "-ps", TimeDifferentiate)}
         ELSE IF f.unit.raw_unit_den = "Seconds" /\ ~ends_with(f.label, "-avg")
              THEN {AutoMetricRule(f.label, f.label \o "-avg", MovingAverage(AvgDepth))}
              ELSE {}
    ELSE {}

\* C10 (creation gate): the rule list holds no rule twice and no two rules of
\* one source, and its rules are exactly those the gate gives the first
\* observation of each label: later upserts, CurrentOnly entries, String or
\* Empty first values and unit-less non-rate metrics add none.
C10_CreationGate ==
    LET rules == aggregator.auto_metric_rules
    IN  /\ \A i \in DOMAIN rules, j \in DOMAIN rules :
               i # j => rules[i].src_metric_name # rules[j].src_metric_name
        /\ Range(rules) = UNION {GateRules(first_seen[l].metric) : l \in DOMAIN first_seen}

\* a counter upserted twice whose generated rate created a moving-average rule
C10_Witness ==
    LET rules == aggregator.auto_metric_rules
    IN  /\ Len(rules) = 2
        /\ rules[1].rule_type = TimeDifferentiate
        /\ rules[2].rule_type = MovingAverage(AvgDepth)
        /\ rules[2].src_metric_name = rules[1].dst_metric_name
        /\ Len(pushed[rules[1].src_metric_name]) = 2

-----------------------------------------------------------------------------
(* Claims about the Backend *)

\* C1 (batches are atomic to readers): whenever a reader holds the aggregator
\* inside a Backend read method, the aggregator is exactly as the last
\* completed handle_metrics call left it (or as it was constructed): no reader
\* sees a batch in part.
C1_BatchAtomic ==
    \A r \in Readers : reader_pc[r] = "holding" => aggregator = committed

\* a reader holds the aggregator after two batches, the second of which
\* upserted two metrics and ran a rule that generated a third, while the other
\* reader waits for the mutex
C1_Witness ==
    /\ reader_pc["r1"] = "holding"
    /\ reader_pc["r2"] = "waiting"
    /\ aggregator.messages_received = 2
    /\ Len(task_msg.metrics) = 2
    /\ "c-ps" \in DOMAIN aggregator.metrics

\* C3 (callbacks run outside the exclusive scope): while the ingestion task
\* invokes the callbacks, it does not hold the aggregator mutex.
C3_CallbacksOutsideScope == task_pc = "callbacks" => agg_mutex.holder # "task"

\* C4 (a re-entering callback returns): a step of the ingestion task that
\* invokes a callback which calls a Backend read method ends with the task at
\* the next callback or back in its select.
C4_ReentrantCallbackReturns ==
    [][(task_pc = "callbacks" /\ Reenters) => task_pc' \in {"callbacks", "select"}]_vars

Terminated == {"done", "panicked"}

\* C5 (cooperative shutdown): once disconnect() has sent the signal and waits,
\* the ingestion task comes to an end; disconnect() returns only when the task
\* has ended; and while no connection is open (none was made, or disconnect()
\* has returned) no batch is applied and no callback is invoked.
C5_Shutdown ==
    /\ (ctl_pc = "join") ~> (ctl_pc = "idle")
    /\ [][(ctl_pc = "join" /\ ctl_pc' = "idle") => task_pc \in Terminated]_vars
    /\ [][~connected /\ ~connected' => aggregator' = aggregator /\ invoked' = invoked]_vars

\* disconnect() has returned after its signal ended a task that had handled a
\* batch and could have received more
C5_Witness ==
    /\ ctl_pc = "idle"
    /\ ~connected
    /\ ctl_log = <<"connect_ok", "disconnect">>
    /\ task_pc = "done"
    /\ aggregator.messages_received >= 1
    /\ events < MaxEvents

\* C6 (idempotent shutdown): a disconnect() called while no connection is open
\* (never connected, or after a disconnect() that has returned) returns at
\* once, does not panic and changes nothing in the Backend.
C6_DisconnectIdempotent ==
    [][(/\ ~connected
        /\ ctl_pc = "idle"
        /\ ctl_log' # ctl_log
        /\ ctl_log'[Len(ctl_log')] \in {"disconnect", "disconnect_noop"})
       => /\ ctl_pc' = "idle"
          /\ UNCHANGED <<aggVars, task_join_handle, quit_signal, callbacks, agg_mutex, cb_mutex,
                         quit_chan, task_pc, task_msg, task_i, task_len, do_reconnect, reader_pc,
                         connected, committed, invoked, events, received>>]_vars

\* a second disconnect() has returned after a connect() and a first disconnect()
C6_Witness ==
    /\ ctl_log = <<"disconnect", "disconnect_noop">>
    /\ ctl_pc = "idle"
    /\ task_pc = "done"

-----------------------------------------------------------------------------
(* Claims about the rules *)

\* C11 (no chain of averages): no MovingAverage rule has a source label that
\* ends in "-avg", whether that label was generated by a rule or ingested.
C11_NoAverageOfAverage ==
    \A i \in DOMAIN aggregator.auto_metric_rules :
        LET rule == aggregator.auto_metric_rules[i]
        IN  rule.rule_type.tag = "MovingAverage" => ~ends_with(rule.src_metric_name, "-avg")

\* the average of a generated rate is stored with history, a numeric value and
\* a per-second unit: only its label keeps it from a rule of its own
C11_Witness ==
    /\ "c-ps-avg" \in DOMAIN aggregator.metrics
    /\ aggregator.metrics["c-ps-avg"].storage.kind = "History"
    /\ IsNumeric(aggregator.metrics["c-ps-avg"].storage.current.value)
    /\ aggregator.metrics["c-ps-avg"].storage.current.unit.raw_unit_den = "Seconds"
    /\ aggregator.metrics["c-ps-avg"].parent_metric = Some("c-ps")



\* the batches so far: "ctr" = 1000 at t = 0, then "ctr" = 3000 at t = 1 s
CounterScenario ==
    /\ batches = 2
    /\ "ctr" \in DOMAIN pushed
    /\ PushedSamples("ctr") = << <<1000000, Integer(3000)>>, <<0, Integer(1000)>> >>

\* C12 as stated (rate sign and magnitude): after a Bytes/None counter was
\* ingested as 1000 at t = 0 and as 3000 at t = 1,000,000 us, its "-ps" metric
\* has value -2, denominator Seconds and magnitude Kilo.
C12_RateMinusTwo ==
    CounterScenario =>
        /\ "ctr-ps" \in DOMAIN aggregator.metrics
        /\ get_metric(aggregator, "ctr-ps")[1].value = Integer(-2)
        /\ get_metric(aggregator, "ctr-ps")[1].unit.raw_unit_den = "Seconds"
        /\ get_metric(aggregator, "ctr-ps")[1].unit.order_of_magnitude = "Kilo"

\* C12 as amended: in that scenario the "-ps" metric has value 2 (newest minus
\* older, in thousands, per second), unit Bytes per Seconds and magnitude Kilo.
C12_RatePlusTwo ==
    CounterScenario =>
        /\ "ctr-ps" \in DOMAIN aggregator.metrics
        /\ get_metric(aggregator, "ctr-ps")[1] =
               Metric_new("ctr-ps", MetricUnit_new("Bytes", "Seconds", "Kilo"), Integer(2))

C12_Witness == CounterScenario /\ ~agg_panicked /\ "ctr-ps" \in DOMAIN aggregator.metrics


\* the batch so far: "pkts" = 100 at t = 0
PacketsFirstBatch ==
    /\ batches = 1
    /\ "pkts" \in DOMAIN pushed
    /\ PushedSamples("pkts") = << <<0, Integer(100)>> >>

\* the batches so far: "pkts" = 100 at t = 0, then "pkts" = 130 at t = 0.3 s
PacketsScenario ==
    /\ batches = 2
    /\ "pkts" \in DOMAIN pushed
    /\ PushedSamples("pkts") = << <<300000, Integer(130)>>, <<0, Integer(100)>> >>

\* C13 as stated (end to end): "pkts-ps" does not exist after the batch
\* t = 0 {pkts: 100}; after the batch t = 300000 us {pkts: 130} it exists with
\* Integer value 99 and unit Packets per Seconds.
C13_RateNinetyNine ==
    /\ PacketsFirstBatch => get_metric(aggregator, "pkts-ps") = NoneOpt
    /\ PacketsScenario =>
           /\ get_metric(aggregator, "pkts-ps") # NoneOpt
           /\ get_metric(aggregator, "pkts-ps")[1].value = Integer(99)
           /\ get_metric(aggregator, "pkts-ps")[1].unit.raw_unit_num = "Packets"
           /\ get_metric(aggregator, "pkts-ps")[1].unit.raw_unit_den = "Seconds"

\* C13 as amended: "pkts-ps" does not exist after the first batch; after the
\* second it exists with Integer value 100 (30 packets in 0.3 s, which is 100
\* exactly) and unit Packets per Seconds, magnitude One.
C13_RateHundred ==
    /\ PacketsFirstBatch => get_metric(aggregator, "pkts-ps") = NoneOpt
    /\ PacketsScenario =>
           get_metric(aggregator, "pkts-ps") =
               Some(Metric_new("pkts-ps", MetricUnit_new("Packets", "Seconds", "One"),
                               Integer(100)))

C13_Witness ==
    /\ PacketsScenario
    /\ ~agg_panicked
    /\ aggregator.metrics["pkts"].storage.history = PushedSamples("pkts")
    /\ "pkts-ps" \in DOMAIN aggregator.metrics


\* call k of the last handle_metrics run is the output of a MovingAverage rule
IsAverageCall(k) ==
    /\ IsSome(calls[k].parent)
    /\ calls[k].metric.label = calls[k].parent[1] \o "-avg"

\* the (timestamp, value) pairs upserted to the source of call k before that
\* call was made, newest first
SamplesAtRun(k) ==
    LET src == calls[k].parent[1]
        later == Cardinality({j \in (k + 1)..Len(calls) : calls[j].metric.label = src})
    IN  SubSeq(PushedSamples(src), later + 1, Len(pushed[src]))

\* of those, the ones the history retains
RetainedAtRun(k) == SubSeq(SamplesAtRun(k), 1, Min(MaxHistory, Len(SamplesAtRun(k))))

\* of those, the ones the rule's window covers
WindowAtRun(k) == SubSeq(RetainedAtRun(k), 1, Min(AvgDepth, Len(RetainedAtRun(k))))

RECURSIVE SumOfValues(_)
SumOfValues(samples) ==
    IF samples = << >>
    THEN <<0, 1>>
    ELSE RatAdd(F64From(Head(samples)[2]), SumOfValues(Tail(samples)))

MeanOf(samples) == RatDiv(SumOfValues(samples), <<Len(samples), 1>>)

\* C14 (moving average window): every value a MovingAverage rule emits is the
\* Number that is the arithmetic mean of the coerced values of the
\* min(depth, history length) most recent samples of its source, as they were
\* when the rule ran; no older sample enters it.
C14_MovingAverageWindow ==
    \A k \in DOMAIN calls :
        IsAverageCall(k) =>
            /\ WindowAtRun(k) # << >>
            /\ calls[k].metric.value = Number(MeanOf(WindowAtRun(k)))

\* a rule ran on a history longer than its depth whose older samples would
\* have changed the mean
C14_Witness ==
    \E k \in DOMAIN calls :
        /\ IsAverageCall(k)
        /\ Len(RetainedAtRun(k)) > AvgDepth
        /\ MeanOf(RetainedAtRun(k)) # MeanOf(WindowAtRun(k))

-----------------------------------------------------------------------------
(* Claims about the history query *)

\* the samples of label l the history retains, newest first, from the trace of upserts
Retained(l) == SubSeq(PushedSamples(l), 1, Min(MaxHistory, Len(pushed[l])))

\* the point of a retained sample: seconds and the coerced value
PointOf(sample) == <<Rat(sample[1], 1000000), F64From(sample[2])>>

\* the last call asked for a label stored with history whose current value is numeric
QueryAnswers ==
    /\ query.made
    /\ query.name \in DOMAIN aggregator.metrics
    /\ aggregator.metrics[query.name].storage.kind = "History"
    /\ pushed[query.name][1][2].value.type \in {"Integer", "Number"}

\* C15 (history query shape): for a label with history, a numeric current value
\* and n retained samples, get_metric_history leaves the buffer holding exactly
\* min(max_len, n) points, the most recent samples as (timestamp / 1e6, value),
\* oldest first and newest last, whatever the buffer held before.
C15_HistoryWindow ==
    QueryAnswers =>
        LET kept == Retained(query.name)
            k == Min(query.max_len, Len(kept))
        IN  /\ Len(query.data) = k
            /\ \A i \in 1..k : query.data[i] = PointOf(kept[k - i + 1])

\* three samples are retained, two are asked for, they differ, and the buffer
\* held other points before
C15_Witness ==
    /\ QueryAnswers
    /\ Len(Retained(query.name)) = MaxHistory
    /\ query.max_len = 2
    /\ query.before # << >>
    /\ query.data[1] # query.data[2]
    /\ query.data[1][1] # query.data[2][1]

\* the coerced values of the retained samples of label l
RetainedValues(l) == {F64From(Retained(l)[i][2]) : i \in DOMAIN Retained(l)}

MinOfSet(S) == CHOOSE x \in S : \A y \in S : ~RatLess(y, x)

MaxOfSet(S) == CHOOSE x \in S : \A y \in S : ~RatLess(x, y)

\* C16 (min and max over the retained history): the pair get_metric_history
\* returns is the minimum and the maximum of the coerced values of all
\* retained samples of the label, whatever their sign and number.
C16_MinMaxOverRetained ==
    (query.made /\ IsSome(query.result)) =>
        query.result[1] = <<MinOfSet(RetainedValues(query.name)),
                            MaxOfSet(RetainedValues(query.name))>>

\* C17 (absence): get_metric_history returns None, and leaves the buffer as it
\* was, exactly when the label was never upserted, or its entry is CurrentOnly,
\* or the value it was last upserted with is String or Empty; in every other
\* case it returns a result. get_metric returns None exactly for labels never
\* upserted.
C17_QueryAbsence ==
    /\ query.made =>
           LET absent ==
                   \/ query.name \notin DOMAIN pushed
                   \/ aggregator.metrics[query.name].storage.kind = "CurrentOnly"
                   \/ pushed[query.name][1][2].value.type \in {"String", "Empty"}
           IN  /\ (query.result = NoneOpt) <=> absent
               /\ absent => query.data = query.before
    /\ \A l \in QueryLabels \union DOMAIN pushed \union DOMAIN aggregator.metrics :
           (get_metric(aggregator, l) = NoneOpt) <=> (l \notin DOMAIN pushed)

\* no result for a label whose history holds numeric samples under a current
\* value that is a String, and the buffer is as it was
C17_Witness ==
    /\ query.made
    /\ query.name = "h"
    /\ "h" \in DOMAIN aggregator.metrics
    /\ aggregator.metrics["h"].storage.kind = "History"
    /\ aggregator.metrics["h"].storage.current.value.type = "String"
    /\ \E i \in DOMAIN aggregator.metrics["h"].storage.history :
           aggregator.metrics["h"].storage.history[i][2].type = "Integer"
    /\ query.max_len > 0
    /\ query.before # << >>
    /\ query.result = NoneOpt
    /\ query.data = query.before

-----------------------------------------------------------------------------
(* Claims about batches *)

\* the labels upserted by the last handle_metrics call, directly or by a rule
UpsertedLabels == {calls[k].metric.label : k \in DOMAIN calls}

\* how many times that call upserted label l
UpsertCount(l) == Cardinality({k \in DOMAIN calls : calls[k].metric.label = l})

\* C18 (batch timestamp): after handle_metrics(ts, batch) has returned,
\* get_last_timestamp() is ts, also for an empty batch and for a ts below an
\* earlier one, and every history sample that call pushed, for an ingested
\* metric or for a rule's output, carries ts.
C18_BatchTimestamp ==
    (batches > 0 /\ ~agg_panicked) =>
        /\ get_last_timestamp(aggregator) = handled_at[1]
        /\ \A l \in UpsertedLabels :
               LET history == aggregator.metrics[l].storage.history
               IN  \A i \in 1..Min(UpsertCount(l), Len(history)) :
                       history[i][1] = handled_at[1]

\* a batch with a timestamp below that of the batch before, in which a metric
\* was ingested twice and a rule pushed its output
C18_Witness ==
    /\ batches >= 2
    /\ ~agg_panicked
    /\ \E k \in DOMAIN calls :
           /\ IsSome(calls[k].parent)
           /\ aggregator.metrics[calls[k].metric.label].storage.kind = "History"
    /\ \E l \in UpsertedLabels :
           /\ UpsertCount(l) = 2
           /\ \E i \in DOMAIN aggregator.metrics[l].storage.history :
                  aggregator.metrics[l].storage.history[i][1] > handled_at[1]


-----
(* Callback dispatch per batch *)

\* the indices of the registered callbacks, in registration order
AllCallbacks == [i \in 1..Len(callbacks) |-> i]

\* where the task is while it has a received batch in hand
BatchPcs == {"lock_agg", "begin", "upsert", "rules", "lock_cb", "callbacks"}

\* C19: for each successfully received batch every callback registered before
\* the dispatch is invoked exactly once, in registration order and only after
\* handle_metrics for the batch has completed, and no callback is invoked on a
\* receive error, an idle timeout or shutdown. Stated on finite runs: the
\* invocations of a batch are always a prefix of the registration order, there
\* is none before handle_metrics has returned, the task leaves the handling of
\* a batch only with every registered callback invoked, and an invocation
\* happens only in the dispatch of a received batch.
C19_CallbacksPerBatch ==
    /\ [](Len(invoked) <= Len(callbacks) /\ invoked = SubSeq(AllCallbacks, 1, Len(invoked)))
    /\ [](task_pc \in BatchPcs \ {"callbacks"} => invoked = << >>)
    /\ [](task_pc = "callbacks" => aggregator = committed)
    /\ [][(task_pc \in BatchPcs /\ task_pc' \notin BatchPcs) => invoked' = AllCallbacks]_vars
    /\ [][(invoked' # invoked /\ invoked' # << >>) => task_pc = "callbacks"]_vars
    /\ [][(TaskRecvErr \/ TaskTimeout \/ TaskQuit) => invoked' = invoked]_vars


-----
(* The receiver loop and its ends *)

\* the aggregator holds the batch in hand applied to what it held at the receive
Applied(agg) ==
    LET whole == handle_metrics(received.agg, task_msg.timestamp, task_msg.metrics,
                                overflow_checks)
    IN  ~whole.panicked /\ agg = whole.agg

\* C20: the ingestion loop terminates only by observing the shutdown signal:
\* a task that ends does so from select! with the signal sent; an idle timeout
\* and a receive error leave the task in the loop at select!; and the task is
\* done with a batch received after a timeout or an error only once the
\* aggregator holds that batch applied.
C20_OnlyShutdownEndsLoop ==
    /\ [][(task_pc \notin Terminated /\ task_pc' \in Terminated)
          => (task_pc = "select" /\ quit_chan = "sent" /\ task_pc' = "done")]_vars
    /\ [][(events' # events /\ do_reconnect') => task_pc' = "select"]_vars
    /\ [][(received.idle /\ task_pc \in BatchPcs /\ task_pc' \notin BatchPcs)
          => Applied(aggregator')]_vars


\* C21: a loop iteration that ends in a receive error or in an idle timeout
\* (the flag do_reconnect is set at its end) leaves the aggregator exactly as
\* it was, entries, histories, rules, last_timestamp and message counter, takes
\* no mutex, and invokes no callback.
C21_IdleIterationFrame ==
    [][(events' # events /\ do_reconnect')
       => /\ aggregator' = aggregator
          /\ invoked' = invoked
          /\ agg_mutex' = agg_mutex
          /\ cb_mutex' = cb_mutex
          /\ task_pc' = "select"]_vars

\* an iteration has ended in an error or a timeout after a batch that created
\* entries, histories and rules and was dispatched to a callback
C21_Witness ==
    /\ do_reconnect
    /\ task_pc = "select"
    /\ events = 2
    /\ aggregator.messages_received = 1
    /\ Len(aggregator.auto_metric_rules) > 0
    /\ invoked = <<1>>


\* an ingestion task exists: it was spawned and has not ended
TaskExists == task_pc \notin {"none"} \cup Terminated

\* C22: at most one ingestion task exists at any time. A task is spawned only
\* by a connect() that finds no join handle, so: whenever the Backend is at
\* rest with no join handle, no task exists; a connect() that succeeds was
\* called with no task in existence; and a connect() called while a task
\* exists returns the 'already connected' error and spawns nothing.
C22_SingleTask ==
    /\ []((ctl_pc = "idle" /\ task_join_handle = NoneOpt) => ~TaskExists)
    /\ [][(ctl_log' # ctl_log /\ ctl_log'[Len(ctl_log')] = "connect_ok") => ~TaskExists]_vars
    /\ [][(TaskExists /\ ctl_log' # ctl_log /\ ctl_log'[Len(ctl_log')] \in {"connect_ok", "connect_err"})
          => /\ ctl_log'[Len(ctl_log')] = "connect_err"
             /\ UNCHANGED <<task_pc, task_msg, task_join_handle, quit_signal, quit_chan>>]_vars

\* a second task, spawned by a connect() after a disconnect() that returned,
\* handles a batch, and the first task had handled one too
C22_Witness ==
    /\ ctl_log = <<"disconnect", "connect_ok">>
    /\ task_pc = "upsert"
    /\ aggregator.messages_received = 2


\* C23: a connect() that returns an error spawns no ingestion task and leaves
\* the task handle, the quit signal and its channel, the aggregator, the
\* callback list and both mutexes as they were; the task that exists goes on
\* from where it was.
C23_ConnectErrorFrame ==
    [][(ctl_log' # ctl_log /\ ctl_log'[Len(ctl_log')] = "connect_err")
       => UNCHANGED <<task_join_handle, quit_signal, quit_chan, aggregator, callbacks,
                      agg_mutex, cb_mutex, task_pc, task_msg, task_i, task_len, committed,
                      invoked, connected, ctl_pc>>]_vars

\* connect() has returned the error while the task held the aggregator in the
\* middle of a batch and a callback was registered
C23_Witness ==
    /\ ctl_log = <<"connect_ok", "connect_err">>
    /\ task_pc = "rules"
    /\ agg_mutex.holder = "task"
    /\ Len(callbacks) = 1
    /\ IsSome(quit_signal)


\* C24: whenever the ingestion task is suspended in select! (or has not
\* started, or has returned) it holds neither the aggregator mutex nor the
\* callback-list mutex, and a reader that is not inside a read method does not
\* hold the aggregator mutex: every read method releases it before it returns.
C24_NoLockAcrossAwait ==
    /\ task_pc \in {"none", "select", "done"} =>
           agg_mutex.holder # "task" /\ cb_mutex.holder # "task"
    /\ \A r \in Readers : reader_pc[r] \in {"idle", "waiting"} => agg_mutex.holder # r

\* the task is back in select! after a batch it dispatched to two callbacks,
\* one reader holds the aggregator and the other waits for it
C24_Witness ==
    /\ task_pc = "select"
    /\ invoked = <<1, 2>>
    /\ aggregator.messages_received = 2
    /\ agg_mutex.holder = "r2"
    /\ reader_pc["r1"] = "waiting"


-----------------------------------------------------------------------------
(* Parsing from JSON: src/src/common/metric.rs                              *)
(* A json::JsonValue is a record: its kind, the text of a string, the       *)
(* rational num/den of a number, and the members of an object. The texts    *)
(* are ASCII: a byte offset is a character offset.                          *)

JsonNull == [kind |-> "null", text |-> "", num |-> 0, den |-> 1, members |-> << >>]

JsonString(s) == [JsonNull EXCEPT !.kind = "string", !.text = s]

JsonNumber(r) == [JsonNull EXCEPT !.kind = "number", !.num = r[1], !.den = r[2]]

JsonBoolean == [JsonNull EXCEPT !.kind = "boolean"]

JsonArray == [JsonNull EXCEPT !.kind = "array"]

\* an object, its members as a sequence of <<name, value>> pairs
JsonObject(pairs) == [JsonNull EXCEPT !.kind = "object", !.members = pairs]

\* JsonValue::as_str
as_str(value) == IF value.kind = "string" THEN Some(value.text) ELSE NoneOpt

\* JsonValue::as_i64: a number that is an integer
as_i64(value) ==
    IF value.kind = "number" /\ value.den = 1 THEN Some(value.num) ELSE NoneOpt

\* JsonValue::as_f64
as_f64(value) ==
    IF value.kind = "number" THEN Some(<<value.num, value.den>>) ELSE NoneOpt

\* o[name] of an object: the member of that name, or Null
RECURSIVE Member(_, _, _)
Member(pairs, name, i) ==
    IF i > Len(pairs) THEN JsonNull
    ELSE IF pairs[i][1] = name THEN pairs[i][2]
    ELSE Member(pairs, name, i + 1)

\* impl TryFrom<&str> for OrderOfMagnitude, followed by .ok()
OrderOfMagnitude_try_from(value) ==
    CASE value = "n" -> Some("Nano")
      [] value = "u" -> Some("Micro")
      [] value = "m" -> Some("Milli")
      [] value = "k" -> Some("Kilo")
      [] value = "M" -> Some("Mega")
      [] value = "G" -> Some("Giga")
      [] value = "T" -> Some("Tera")
      [] OTHER -> NoneOpt

unwrap_or(o, default) == IF IsSome(o) THEN o[1] ELSE default

\* the numerator a unit token stands for
RawUnitOf(token) ==
    CASE token = "pkts" -> Some("Packets")
      [] token = "bits" -> Some("Bits")
      [] token = "bytes" -> Some("Bytes")
      [] token = "sec" -> Some("Seconds")
      [] OTHER -> NoneOpt

\* the outcome of a parse: a panic, or the Result it returns
Panicked == [panicked |-> TRUE, ok |-> FALSE, value |-> NoneOpt]

ReturnsOk(x) == [panicked |-> FALSE, ok |-> TRUE, value |-> Some(x)]

ReturnsErr == [panicked |-> FALSE, ok |-> FALSE, value |-> NoneOpt]

\* the while loop of MetricUnit::try_from (lines 186-202): &value[..offset]
\* panics when offset is beyond the end of the text
RECURSIVE UnitScan(_, _)
UnitScan(value, offset) ==
    IF offset >= 2
    THEN ReturnsOk(MetricUnit_new("None", "None", "One"))
    ELSE IF offset > Len(value)
    THEN Panicked
    ELSE LET first == SubSeq(value, 1, offset)
             shifted_str == SubSeq(value, offset + 1, Len(value))
             oom == OrderOfMagnitude_try_from(first)
         IN  IF IsSome(RawUnitOf(shifted_str))
             THEN ReturnsOk(MetricUnit_new(RawUnitOf(shifted_str)[1], "None",
                                           unwrap_or(oom, "One")))
             ELSE UnitScan(value, offset + 1)

\* impl TryFrom<&json::JsonValue> for MetricUnit
MetricUnit_try_from(value) ==
    IF IsSome(as_str(value))
    THEN UnitScan(as_str(value)[1], 0)
    ELSE ReturnsOk(MetricUnit_new("None", "None", "One"))

\* a conversion that takes an unknown type tag for an empty value
MetricValue_try_from_lenient(value) ==
    IF value.kind # "object" THEN ReturnsErr
    ELSE LET type_field == as_str(Member(value.members, "type", 1))
             value_field == Member(value.members, "value", 1)
         IN  IF ~IsSome(type_field) THEN ReturnsErr
             ELSE CASE type_field[1] = "string" ->
                           IF IsSome(as_str(value_field))
                           THEN ReturnsOk(String(as_str(value_field)[1]))
                           ELSE ReturnsErr
                    [] type_field[1] = "integer" ->
                           IF IsSome(as_i64(value_field))
                           THEN ReturnsOk(Integer(as_i64(value_field)[1]))
                           ELSE ReturnsErr
                    [] type_field[1] = "number" ->
                           IF IsSome(as_f64(value_field))
                           THEN ReturnsOk(Number(as_f64(value_field)[1]))
                           ELSE ReturnsErr
                    [] OTHER -> ReturnsOk(Empty)

\* impl TryFrom<&json::JsonValue> for MetricValue
MetricValue_try_from(value) ==
    IF value.kind # "object" THEN ReturnsErr
    ELSE LET type_field == as_str(Member(value.members, "type", 1))
             value_field == Member(value.members, "value", 1)
         IN  IF ~IsSome(type_field) THEN ReturnsErr
             ELSE CASE type_field[1] = "empty" -> ReturnsOk(Empty)
                    [] type_field[1] = "string" ->
                           IF IsSome(as_str(value_field))
                           THEN ReturnsOk(String(as_str(value_field)[1]))
                           ELSE ReturnsErr
                    [] type_field[1] = "integer" ->
                           IF IsSome(as_i64(value_field))
                           THEN ReturnsOk(Integer(as_i64(value_field)[1]))
                           ELSE ReturnsErr
                    [] type_field[1] = "number" ->
                           IF IsSome(as_f64(value_field))
                           THEN ReturnsOk(Number(as_f64(value_field)[1]))
                           ELSE ReturnsErr
                    [] OTHER -> ReturnsErr

\* the texts handed to the unit parser: none, one character, the tokens, the
\* tokens with a magnitude prefix, with another character, and near misses
UnitTexts ==
    {"", "x", "k", "M", "pkts", "bits", "bytes", "sec", "Mbits", "kpkts", "Gbytes", "nsec",
     "usec", "msec", "Tbits", "xbits", "byte", "bitsx", "MMbits", "Kbytes", "flows"}

UnitInputs ==
    {JsonString(t) : t \in UnitTexts} \cup {JsonNull, JsonNumber(<<5, 1>>), JsonBoolean, JsonArray}

\* the values a "value" member takes
ValueFields == {JsonNull, JsonNumber(<<123456, 1>>), JsonNumber(<<-7, 1>>), JsonString("up")}

\* the type tags, with an unknown one, one of another case and one that is not a text
TypeFields ==
    {JsonString(t) : t \in {"integer", "number", "string", "empty", "float", "Integer"}}
        \cup {JsonNumber(<<1, 1>>)}

ValueInputs ==
    {JsonObject(<<<<"type", t>>, <<"value", v>>>>) : t \in TypeFields, v \in ValueFields}
        \cup {JsonObject(<<<<"value", v>>>>) : v \in ValueFields}
        \cup {JsonObject(<<<<"type", JsonString("empty")>>>>),
              JsonObject(<<<<"type", JsonString("integer")>>>>),
              JsonObject(<<<<"type", JsonString("number")>>, <<"value", JsonNumber(<<5, 2>>)>>>>),
              JsonNull, JsonNumber(<<5, 1>>), JsonString("integer"), JsonArray}

\* MetricUnit::try_from(&json) is called
ParseUnit(json) ==
    /\ unit_parse' = Some([input |-> json, result |-> MetricUnit_try_from(json)])
    /\ UNCHANGED <<aggregator, overflow_checks, agg_panicked, calls, pushed, first_seen, batches,
                   query, handled_at, value_parse, backendVars>>

\* MetricValue::try_from(&json) is called
ParseValue(json) ==
    /\ value_parse' = Some([input |-> json, result |-> MetricValue_try_from(json)])
    /\ UNCHANGED <<aggregator, overflow_checks, agg_panicked, calls, pushed, first_seen, batches,
                   query, handled_at, unit_parse, backendVars>>

NextParse ==
    \/ \E json \in UnitInputs : ParseUnit(json)
    \/ \E json \in ValueInputs : ParseValue(json)

SpecParse == Init /\ [][NextParse]_vars

-----------------------------------------------------------------------------
(* Claims about parsing *)

MagnitudePrefixes == {"n", "u", "m", "k", "M", "G", "T"}

UnitTokens == {"pkts", "bits", "bytes", "sec"}

\* the text is a unit token with an optional magnitude prefix of one character
Recognized(json) ==
    /\ json.kind = "string"
    /\ \E p \in MagnitudePrefixes \cup {""}, t \in UnitTokens : json.text = p \o t

\* the unit a recognized text stands for
UnitOfText(text) ==
    IF text \in UnitTokens
    THEN MetricUnit_new(RawUnitOf(text)[1], "None", "One")
    ELSE MetricUnit_new(RawUnitOf(SubSeq(text, 2, Len(text)))[1], "None",
                        OrderOfMagnitude_try_from(SubSeq(text, 1, 1))[1])

\* C25: parsing a unit never fails and never panics, for text and for
\* non-text input; a recognized token with an optional magnitude prefix gives
\* the token's numerator with the prefix's magnitude, and every other input
\* (the empty text and a single character among them) gives the neutral unit
\* (None, None, One).
C25_LenientUnit ==
    IsSome(unit_parse) =>
        LET json == unit_parse[1].input
            result == unit_parse[1].result
        IN  /\ ~result.panicked
            /\ result.ok
            /\ result.value[1] = IF Recognized(json) THEN UnitOfText(json.text)
                                 ELSE MetricUnit_new("None", "None", "One")


\* the value a tagged object {type, value} stands for, None where the tag is
\* unknown, missing or no text, or the value member is not of the tag's type
TaggedValue(tag, v) ==
    IF tag.kind # "string" THEN NoneOpt
    ELSE CASE tag.text = "integer" /\ v.kind = "number" /\ v.den = 1 -> Some(Integer(v.num))
           [] tag.text = "number" /\ v.kind = "number" -> Some(Number(<<v.num, v.den>>))
           [] tag.text = "string" /\ v.kind = "string" -> Some(String(v.text))
           [] tag.text = "empty" -> Some(Empty)
           [] OTHER -> NoneOpt

\* C27: parsing a tagged value object {type, value} gives Integer(n) for type
\* 'integer' with an integer n, Number for 'number', String for 'string' and
\* Empty for 'empty'; it returns an error and no value for an unknown or
\* missing type tag, for a value member of the wrong type and for input that
\* is not an object; it never panics.
C27_TaggedValue ==
    IsSome(value_parse) =>
        LET json == value_parse[1].input
            result == value_parse[1].result
            expected == IF json.kind = "object"
                        THEN TaggedValue(Member(json.members, "type", 1),
                                         Member(json.members, "value", 1))
                        ELSE NoneOpt
        IN  /\ ~result.panicked
            /\ result.ok = IsSome(expected)
            /\ result.value = expected

\* the object of metric_value_creation_test01 was parsed to Integer(123456),
\* after a unit was parsed
C27_Witness ==
    /\ IsSome(unit_parse)
    /\ IsSome(value_parse)
    /\ value_parse[1].input = JsonObject(<<<<"type", JsonString("integer")>>,
                                           <<"value", JsonNumber(<<123456, 1>>)>>>>)
    /\ value_parse[1].result = ReturnsOk(Integer(123456))


-----------------------------------------------------------------------------
(* Claims about the TimeDifferentiate rule *)

\* call k of the last handle_metrics run is the output of a TimeDifferentiate rule
IsRateCall(k) ==
    /\ IsSome(calls[k].parent)
    /\ calls[k].metric.label = calls[k].parent[1] \o "-ps"

\* the (timestamp, metric) pairs the history of the source of call k retained
\* when that call was made, newest first
MetricsAtRun(k) ==
    LET src == calls[k].parent[1]
        later == Cardinality({j \in (k + 1)..Len(calls) : calls[j].metric.label = src})
    IN  SubSeq(pushed[src], later + 1, Min(later + MaxHistory, Len(pushed[src])))

\* the samples of h, other than the newest, that lie at least
\* desired_deltat_diffs_us before the newest
Qualifying(h) == {i \in 2..Len(h) : h[1][1] - h[i][1] >= DEFAULT_DELTAT}

\* of those, the one retained for the longest time
OldestQualifying(h) == CHOOSE i \in Qualifying(h) : \A j \in Qualifying(h) : j <= i

\* the rate between two samples, in the unit of the newest, per second
RateBetween(newest, baseline) ==
    LET numerator == newest[2].unit.raw_unit_num
        cf == CASE numerator = "Bytes" -> <<1, 1000>>
                [] numerator = "Bits" -> <<1, 1000000>>
                [] OTHER -> <<1, 1>>
        value_diff == RatSub(F64From(newest[2].value), F64From(baseline[2].value))
        seconds == Rat(newest[1] - baseline[1], 1000000)
    IN  Integer(AsI64(RatDiv(RatMul(cf, value_diff), seconds)))

\* C28: when a TimeDifferentiate rule runs and at least one older sample of its
\* source lies at least desired_deltat_diffs_us before the newest one, the rate
\* it emits is taken between the newest sample and the oldest retained sample
\* that lies that far before it (the widest window), not the most recent one.
C28_WidestWindow ==
    \A k \in DOMAIN calls :
        (IsRateCall(k) /\ Qualifying(MetricsAtRun(k)) # {}) =>
            LET h == MetricsAtRun(k)
            IN  calls[k].metric.value = RateBetween(h[1], h[OldestQualifying(h)])


\* the rules of the aggregator that are TimeDifferentiate rules, by index
RateRules(agg) ==
    {i \in DOMAIN agg.auto_metric_rules :
        agg.auto_metric_rules[i].rule_type.tag = "TimeDifferentiate"}

\* call k of the last run is the output of the rule from src to dst
EmittedBy(k, src, dst) == calls[k].parent = Some(src) /\ calls[k].metric.label = dst

\* the (timestamp, metric) pairs the history of the source of rule i retained
\* when the last pass came to that rule: the upserts made to the source so
\* far, less the ones rules after i made in that pass
HistoryAtRule(i) ==
    LET rules == aggregator.auto_metric_rules
        src == rules[i].src_metric_name
        later == Cardinality({k \in DOMAIN calls :
                     \E j \in (i + 1)..Len(rules) :
                         EmittedBy(k, rules[j].src_metric_name, src)
                         /\ rules[j].dst_metric_name = src})
    IN  SubSeq(pushed[src], later + 1, Min(later + MaxHistory, Len(pushed[src])))

\* rule i found fewer than two samples, or no older sample that lies at least
\* desired_deltat_diffs_us before the newest one
NothingToRate(i) == Len(HistoryAtRule(i)) < 2 \/ Qualifying(HistoryAtRule(i)) = {}

\* C29: a TimeDifferentiate rule whose source has fewer than 2 history samples,
\* or no older sample at least desired_deltat_diffs_us before the newest one,
\* emits nothing in that pass: no upsert of its destination comes from it, and
\* unless the batch itself carries the destination label, the destination
\* entry is neither created nor changed and no rule on it is added.
C29_NothingEmitted ==
    /\ [](\A i \in RateRules(aggregator) :
             (batches > 0 /\ NothingToRate(i)) =>
                 \A k \in DOMAIN calls :
                     ~EmittedBy(k, aggregator.auto_metric_rules[i].src_metric_name,
                                aggregator.auto_metric_rules[i].dst_metric_name))
    /\ [][\A i \in RateRules(aggregator') :
              LET dst == aggregator'.auto_metric_rules[i].dst_metric_name
              IN  (/\ batches' = batches + 1
                   /\ NothingToRate(i)'
                   /\ \A k \in DOMAIN calls' : calls'[k].metric.label # dst)
                  => /\ dst \in DOMAIN aggregator'.metrics <=> dst \in DOMAIN aggregator.metrics
                     /\ dst \in DOMAIN aggregator.metrics =>
                            aggregator'.metrics[dst] = aggregator.metrics[dst]
                     /\ \A j \in DOMAIN aggregator'.auto_metric_rules :
                            aggregator'.auto_metric_rules[j].src_metric_name = dst
                                => j \in DOMAIN aggregator.auto_metric_rules]_vars


\* the magnitude of a rate whose source has this numerator
RateMagnitude(numerator) ==
    CASE numerator = "Bytes" -> "Kilo"
      [] numerator = "Bits" -> "Mega"
      [] OTHER -> "One"

\* C30: the metric a TimeDifferentiate rule emits has the rule's destination
\* label, the unit (source numerator, Seconds, Kilo for Bytes / Mega for Bits /
\* One otherwise) and, for some older sample that passed the rule's test as
\* baseline, the value Integer(trunc(cf * (newest - baseline) / seconds)) with
\* cf = 1/1000 for Bytes, 1/1e6 for Bits and 1 otherwise (a difference of
\* timestamps that wrapped is above 10^13 seconds and gives 0); a value that
\* did not fall between baseline and newest sample gives a rate >= 0.
C30_RateFormula ==
    \A k \in DOMAIN calls, i \in RateRules(aggregator) :
        calls[k].parent = Some(aggregator.auto_metric_rules[i].src_metric_name) =>
            LET h == MetricsAtRun(k)
                numerator == h[1][2].unit.raw_unit_num
            IN  /\ calls[k].metric.label = aggregator.auto_metric_rules[i].dst_metric_name
                /\ calls[k].metric.unit =
                       MetricUnit_new(numerator, "Seconds", RateMagnitude(numerator))
                /\ \E b \in 2..Len(h) :
                       LET time_diff_us == h[1][1] - h[b][1]
                       IN  /\ U64Ge(time_diff_us, DEFAULT_DELTAT)
                           /\ calls[k].metric.value =
                                  IF time_diff_us < 0 THEN Integer(0)
                                  ELSE RateBetween(h[1], h[b])
                           /\ ~RatLess(F64From(h[1][2].value), F64From(h[b][2].value))
                                  => calls[k].metric.value.num >= 0

\* a rule has emitted a rate of 10 thousand bytes per second for a counter
\* that grew by 3000 bytes in 0.3 s
C30_Witness ==
    \E k \in DOMAIN calls :
        /\ calls[k].parent = Some("c")
        /\ calls[k].metric =
               Metric_new("c-ps", MetricUnit_new("Bytes", "Seconds", "Kilo"), Integer(10))
        /\ Len(MetricsAtRun(k)) = 2
        /\ MetricsAtRun(k)[1][1] = 300000


-----------------------------------------------------------------------------
(* Claims about the values rules compute from *)

\* the sample of h the scan of a TimeDifferentiate rule used last: the oldest
\* one that passed its test
ScanBaseline(h) ==
    LET passed == {i \in 2..Len(h) : U64Ge(h[1][1] - h[i][1], DEFAULT_DELTAT)}
    IN  CHOOSE i \in passed : \A j \in passed : j <= i

\* C26: non-numeric values never take part in a derivation: for every sequence
\* of batches, the newest sample and the baseline a TimeDifferentiate output
\* was computed from, and every sample of the window a MovingAverage output was
\* computed from, hold an Integer or a Number, never a String or Empty.
C26_NumericSamplesOnly ==
    \A k \in DOMAIN calls :
        /\ IsRateCall(k) =>
               /\ IsNumeric(MetricsAtRun(k)[1][2].value)
               /\ IsNumeric(MetricsAtRun(k)[ScanBaseline(MetricsAtRun(k))][2].value)
        /\ IsAverageCall(k) =>
               \A i \in DOMAIN WindowAtRun(k) : IsNumeric(WindowAtRun(k)[i][2])


-----------------------------------------------------------------------------
(* Claims about parents, the rule list and the rule pass *)

\* rule r of the list writes label l from label s
Produces(agg, s, l) ==
    \E i \in DOMAIN agg.auto_metric_rules :
        /\ agg.auto_metric_rules[i].src_metric_name = s
        /\ agg.auto_metric_rules[i].dst_metric_name = l

\* C31: an entry whose label was first upserted by a rule records that rule's
\* source label as its parent, an entry whose label was first upserted by
\* ingestion records no parent, and the parent of an entry never changes, also
\* when the label is later written by the other path.
C31_ParentOfFirstUpsert ==
    /\ [](\A l \in DOMAIN aggregator.metrics :
              /\ l \in DOMAIN first_seen
              /\ aggregator.metrics[l].parent_metric = first_seen[l].parent
              /\ IsSome(first_seen[l].parent) =>
                     Produces(aggregator, first_seen[l].parent[1], l))
    /\ [][\A l \in DOMAIN aggregator.metrics :
              /\ l \in DOMAIN aggregator'.metrics
              /\ aggregator'.metrics[l].parent_metric = aggregator.metrics[l].parent_metric]_vars

\* "c-ps" was first ingested and has just been written by the rule of "c", and
\* "c" was first ingested and has a derived label of its own
C31_Witness ==
    /\ "c-ps" \in DOMAIN aggregator.metrics
    /\ aggregator.metrics["c-ps"].parent_metric = NoneOpt
    /\ \E k \in DOMAIN calls :
           calls[k].metric.label = "c-ps" /\ calls[k].parent = Some("c")


\* the calls of the last run that rule i of the list made
CallsOfRule(i) ==
    {k \in DOMAIN calls :
        EmittedBy(k, aggregator.auto_metric_rules[i].src_metric_name,
                  aggregator.auto_metric_rules[i].dst_metric_name)}

\* the labels the last batch carried
IngestedLabels == {calls[k].metric.label : k \in {j \in DOMAIN calls : calls[j].parent = NoneOpt}}

\* rule i found a sample that passes the test of its scan
SomethingToRate(i) ==
    \E b \in 2..Len(HistoryAtRule(i)) :
        U64Ge(HistoryAtRule(i)[1][1] - HistoryAtRule(i)[b][1], DEFAULT_DELTAT)

\* C32: the rule list only grows by appending (no rule is removed, reordered or
\* modified), and a handle_metrics call that returns executes every rule that
\* is in the list when its pass starts exactly once and in list order, whether
\* or not the batch upserted the rule's source: a MovingAverage rule makes
\* exactly one upsert, a TimeDifferentiate rule makes one exactly when its scan
\* finds a sample, and the upserts of an earlier rule precede those of a later.
C32_EveryRuleOncePerPass ==
    [][LET old == aggregator.auto_metric_rules
           new == aggregator'.auto_metric_rules
           at_start == {i \in DOMAIN new :
                           i <= Len(old) \/ new[i].src_metric_name \in IngestedLabels'}
       IN  /\ Len(old) <= Len(new)
           /\ SubSeq(new, 1, Len(old)) = old
           /\ (batches' = batches + 1 /\ ~agg_panicked') =>
                  /\ \A i \in at_start :
                         /\ Cardinality(CallsOfRule(i)') <= 1
                         /\ new[i].rule_type.tag = "MovingAverage" => CallsOfRule(i)' # {}
                         /\ new[i].rule_type.tag = "TimeDifferentiate" =>
                                (CallsOfRule(i)' # {} <=> SomethingToRate(i)')
                  /\ \A i, j \in at_start :
                         i < j => \A k \in CallsOfRule(i)', m \in CallsOfRule(j)' : k < m]_vars

\* a batch that carried only "c" has run the rule of "r" and then the rule of "c"
C32_Witness ==
    /\ ~agg_panicked
    /\ IngestedLabels = {"c"}
    /\ \E i, j \in DOMAIN aggregator.auto_metric_rules :
           /\ i < j
           /\ aggregator.auto_metric_rules[i].src_metric_name = "r"
           /\ aggregator.auto_metric_rules[j].src_metric_name = "c"
           /\ CallsOfRule(i) # {}
           /\ CallsOfRule(j) # {}


\* the number of rules between label l and the ingested label it derives from
RECURSIVE ChainLength(_)
ChainLength(l) ==
    IF IsSome(first_seen[l].parent) THEN 1 + ChainLength(first_seen[l].parent[1]) ELSE 0

\* C33: a handle_metrics call runs the rule pass once and after all upserts of
\* the batch: the upserts of the batch's metrics precede every upsert a rule
\* makes, a rule makes at most one, and a rule created during the pass makes
\* none in that pass (it runs first in the pass of the next batch). So a label
\* two rules away from an ingested one ("c" -> "c-ps" -> "c-ps-avg") exists
\* after three batches at the earliest.
C33_SinglePassAfterUpserts ==
    /\ [](\A l \in DOMAIN aggregator.metrics : ChainLength(l) >= 2 => batches >= 3)
    /\ [][LET old == aggregator.auto_metric_rules
              new == aggregator'.auto_metric_rules
              created_in_pass == {i \in DOMAIN new :
                                     /\ i > Len(old)
                                     /\ new[i].src_metric_name \notin IngestedLabels'}
          IN  batches' = batches + 1 =>
                  /\ \A k, m \in DOMAIN calls' :
                         (calls'[k].parent = NoneOpt /\ IsSome(calls'[m].parent)) => k < m
                  /\ \A i \in DOMAIN new : Cardinality(CallsOfRule(i)') <= 1
                  /\ \A i \in created_in_pass : CallsOfRule(i)' = {}
                  /\ \A k \in DOMAIN calls' :
                         IsSome(calls'[k].parent) =>
                             calls'[k].parent[1] \in DOMAIN aggregator.metrics \union IngestedLabels'
         ]_vars

\* the third batch has run the rule that the second batch's pass created
C33_Witness ==
    /\ batches = 3
    /\ "c-ps-avg" \in DOMAIN aggregator.metrics
    /\ ChainLength("c-ps-avg") = 2
    /\ \E k \in DOMAIN calls : EmittedBy(k, "c-ps", "c-ps-avg")


\* the ingested label that label l derives from
RECURSIVE RootOf(_)
RootOf(l) == IF IsSome(first_seen[l].parent) THEN RootOf(first_seen[l].parent[1]) ELSE l

\* the labels first written by a rule that derive from the ingested label l
DerivedFrom(l) == {d \in DOMAIN first_seen : d # l /\ RootOf(d) = l}

\* the rules that read l or a label derived from it
RulesFrom(l) ==
    {i \in DOMAIN aggregator.auto_metric_rules :
        aggregator.auto_metric_rules[i].src_metric_name \in {l} \union DerivedFrom(l)}

\* C34: the creation gate bounds the derivation chains: every ingested label
\* gives rise to at most two derived labels and at most two rules (src ->
\* src-ps -> src-ps-avg, or src -> src-avg), so the rule list and the label set
\* stop growing.
C34_ChainsOfTwo ==
    \A l \in DOMAIN first_seen :
        first_seen[l].parent = NoneOpt =>
            /\ Cardinality(DerivedFrom(l)) <= 2
            /\ Cardinality(RulesFrom(l)) <= 2


-----------------------------------------------------------------------------
(* Claims about timestamps and histories *)

\* the history of label l keeps its timestamps in order, newest first
Ordered(history) ==
    \A i, j \in DOMAIN history : i < j => history[i][1] >= history[j][1]

\* C35: for batches with arbitrary timestamps, one below or equal to an earlier
\* batch's included, the TimeDifferentiate pass computes newest minus older
\* without unsigned underflow and never divides by a zero difference: no call
\* panics, and in every History entry the timestamps do not increase from
\* index 0 to the last index.
C35_NoTimestampUnderflow ==
    /\ ~agg_panicked
    /\ \A l \in DOMAIN aggregator.metrics :
           aggregator.metrics[l].storage.kind = "History" =>
               Ordered(aggregator.metrics[l].storage.history)
    /\ \A k \in DOMAIN calls :
           IsRateCall(k) =>
               MetricsAtRun(k)[1][1] > MetricsAtRun(k)[ScanBaseline(MetricsAtRun(k))][1]


\* C36: in every reachable state every History entry holds at least one and at
\* most max_history samples, and its newest sample (index 0) is the value of
\* the entry's current metric with the timestamp of the batch in which the
\* label was last upserted.
C36_NewestSampleIsCurrent ==
    \A l \in DOMAIN aggregator.metrics :
        LET storage == aggregator.metrics[l].storage
        IN  storage.kind = "History" =>
                /\ Len(storage.history) >= 1
                /\ Len(storage.history) <= MaxHistory
                /\ storage.current = pushed[l][1][2]
                /\ storage.history[1] = <<pushed[l][1][1], storage.current.value>>

\* a full history that has dropped samples, in an entry the last batch did not
\* upsert and whose newest sample is older than that batch
C36_Witness ==
    \E l \in DOMAIN aggregator.metrics :
        /\ aggregator.metrics[l].storage.kind = "History"
        /\ Len(aggregator.metrics[l].storage.history) = MaxHistory
        /\ Len(pushed[l]) > MaxHistory
        /\ \A k \in DOMAIN calls : calls[k].metric.label # l
        /\ aggregator.metrics[l].storage.history[1][1] # aggregator.last_timestamp


\* rule j of the list reads the label rule i writes
Feeds(i, j) ==
    aggregator.auto_metric_rules[i].dst_metric_name =
        aggregator.auto_metric_rules[j].src_metric_name

\* in the last pass rule j read its source after rule i had written it: the
\* newest sample it found is the one rule i pushed in that batch
ReadsFresh(i, j) ==
    \A k \in CallsOfRule(i), m \in CallsOfRule(j) :
        /\ k < m
        /\ SamplesAtRun(m)[1] = <<handled_at[1], calls[k].metric.value>>

-----------------------------------------------------------------------------
(* Claims about the two mutexes and the quit signal *)

C39_SenderMeansLiveTask ==
    /\ IsSome(quit_signal) => (task_pc \notin Terminated /\ quit_chan = "open")
    /\ ctl_pc # "panicked"
    /\ ctl_pc \in {"idle", "panicked"} => (IsSome(quit_signal) <=> IsSome(task_join_handle))


-----------------------------------------------------------------------------
(* Claims about the shape of the rule list *)

\* C40: in every reachable state each label is the source of at most one rule,
\* no two rules have the same destination label, there are at most as many
\* rules as store entries, and the source label of every rule is in the store
\* (so it is whenever a rule pass runs).
C40_OneRulePerLabel ==
    LET rules == aggregator.auto_metric_rules
    IN  /\ \A i, j \in DOMAIN rules :
               i # j => /\ rules[i].src_metric_name # rules[j].src_metric_name
                        /\ rules[i].dst_metric_name # rules[j].dst_metric_name
        /\ Len(rules) <= Cardinality(DOMAIN aggregator.metrics)
        /\ \A i \in DOMAIN rules : rules[i].src_metric_name \in DOMAIN aggregator.metrics

\* three rules of both types, a chain among them, a source that was upserted
\* again, and labels that are the source of no rule
C40_Witness ==
    /\ Len(aggregator.auto_metric_rules) >= 3
    /\ Cardinality(DOMAIN aggregator.metrics) > Len(aggregator.auto_metric_rules)
    /\ \E i, j \in DOMAIN aggregator.auto_metric_rules : Feeds(i, j)
    /\ \E i \in DOMAIN aggregator.auto_metric_rules :
           Len(pushed[aggregator.auto_metric_rules[i].src_metric_name]) >= 2

=============================================================================
